---- MODULE Spec2Model ----
(***************************************************************************)
(* Request dispatch and rate-limit subsystem of the Steam ID processor:    *)
(* the (connection x endpoint) cooldown matrix of ProxyManager and the     *)
(* request / retry path of SteamValidator.makeApiRequest.                  *)
(*                                                                         *)
(* Time is in milliseconds and is kept relative to the present: the clock  *)
(* reading Date.now() is the origin, and when a minute passes (Tick) every *)
(* stored timestamp moves a minute into the past.  The code only compares  *)
(* timestamps with Date.now() and subtracts them from it, so timestamps    *)
(* that are already past (an expired cooldown_until, a lastApiCallTime     *)
(* older than the pacing interval) are kept at the point where they became *)
(* past.  JavaScript indices are kept as they are (connection 0 is the     *)
(* first element), sequences are accessed at i + 1.                        *)
(***************************************************************************)
EXTENDS Integers, Sequences, FiniteSets, TLC

(***************************************************************************)
(* Bounds of the model                                                     *)
(***************************************************************************)
MaxCalls == 2          \* upstream HTTP calls started, both loops running
MaxCallsSeq == 3       \* upstream HTTP calls started, one loop running

(***************************************************************************)
(* Program constants                                                       *)
(***************************************************************************)
MsPerMinute == 60000
minApiCallInterval == 1000
InventoryTimeout == 25000
DefaultTimeout == 15000
UnknownErrorCooldown == 60000
FallbackMinutes == 1
\* Number.MAX_SAFE_INTEGER: above every timestamp (kept within TLC's integers)
MAX_SAFE_INTEGER == 2000000000

\* Absent optional field of a JSON record / undefined
Absent == -1

\* COOLDOWN_*_MS as configured through the environment: the fixed cooldown
\* durations the model is run with
cooldownDurations ==
  [ connection_reset |-> 2 * MsPerMinute,
    timeout          |-> 1 * MsPerMinute,
    dns_failure      |-> 3 * MsPerMinute,
    socks_error      |-> 3 * MsPerMinute ]

\* The two cooperative loops of index.js that issue upstream requests
Procs == { "main", "react" }

\* Upstream URLs, identified by the substring that classifies them
Urls == { "GetFriendList", "inventory" }

\* Helper method to extract endpoint name from URL
getEndpointName(url) ==
  CASE url = "GetFriendList"            -> "friends"
    [] url = "inventory"                -> "inventory"
    [] url = "GetSteamLevel"            -> "steam_level"
    [] url = "GetAnimatedAvatar"        -> "animated_avatar"
    [] url = "GetAvatarFrame"           -> "avatar_frame"
    [] url = "GetMiniProfileBackground" -> "mini_profile_background"
    [] url = "GetProfileBackground"     -> "profile_background"
    [] OTHER                            -> "other"

Endpoints == { getEndpointName(u) : u \in Urls }

getTimeoutForEndpoint(endpointName) ==
  IF endpointName = "inventory" THEN InventoryTimeout ELSE DefaultTimeout

\* Connection lists of config_proxies.json the model is run with
DirectConn == [ type |-> "direct", url |-> "null" ]
Socks(u) == [ type |-> "socks5", url |-> u ]

\* The deployments the model is run with: BACKOFF_SEQUENCE_MINUTES, the
\* connection list of config_proxies.json, and the egress paths (by url) on
\* which the upstream answers 200 to every call
Deployments ==
  { [ sequence |-> << 1 >>,
      connections |-> << DirectConn >>,
      healthy |-> {} ],
    [ sequence |-> << 1, 2 >>,
      connections |-> << DirectConn, Socks("socks5://p1") >>,
      healthy |-> {} ],
    [ sequence |-> << 1, 2, 4 >>,
      connections |-> << DirectConn, Socks("socks5://p1"), Socks("socks5://p2") >>,
      healthy |-> {} ],
    [ sequence |-> << 1, 2, 4 >>,
      connections |-> << DirectConn, Socks("socks5://p1"), Socks("socks5://p2") >>,
      healthy |-> { "socks5://p2" } ],
    [ sequence |-> << 1, 2 >>,
      connections |-> << DirectConn, Socks("http://bad"), Socks("socks5://p2") >>,
      healthy |-> {} ] }

\* url.startsWith('socks5://')
ValidSocksUrl(u) == u \in { "socks5://p1", "socks5://p2", "socks5://p3" }

\* Date.now(): the present is the origin of the time axis
now == 0

\* a lastApiCallTime at least minApiCallInterval in the past
LongAgo == now - minApiCallInterval

Min(S) == CHOOSE x \in S : \A y \in S : x <= y
Max(S) == CHOOSE x \in S : \A y \in S : x >= y

(***************************************************************************)
(* State                                                                   *)
(***************************************************************************)
VARIABLES
  healthy,           \* environment: urls of the paths that always answer 200
  backoffSequence,   \* ProxyManager.backoffSequence
  config,            \* ProxyManager.config.connections
  cooldowns,         \* ProxyManager.cooldowns.connections (= the cooldown file)
  backoffLevels,     \* ProxyManager.backoffLevels (in memory)
  currentProxyIndex, \* ProxyManager.currentProxyIndex
  lastApiCallTime,   \* SteamValidator.lastApiCallTime
  pc,                \* per process: position inside makeApiRequest
  req,               \* per process: the request being served
  result,            \* per process: outcome of the last finished request
  ncalls,            \* number of upstream HTTP calls started
  marks,             \* history: per cell, the 429 marks since it last had no level
  resetCells         \* history: cells whose level a success removed since
                     \* startup, not marked since

VARIABLES
  clock,             \* fine clock of the pacing view: milliseconds since start
  wakeAt,            \* fine clock: per process, when its pacing timer is due
  dispatchTimes      \* history: the clock at each upstream dispatch, in order

\* the state of the pacing view of respectRateLimit
paceVars == << clock, wakeAt, dispatchTimes >>

VARIABLES
  queueFile,         \* the content of profiles_queue.json
  task,              \* per async task: its position inside a QueueManager call
  nops               \* the QueueManager calls made so far

\* the state of the queue store
storeVars == << queueFile, task, nops >>

VARIABLES
  lockFile,          \* the content of profiles_queue.json.lock, NoLock if absent
  worker,            \* per async task: its position inside withFileLock
  ncrash             \* the process crashes so far

\* the state of the lock view
lockVars == << lockFile, worker, ncrash >>

VARIABLES
  removedRows        \* history: the cooldown rows that removeSocks5Proxy dropped

\* the history of the connection registry
regVars == << removedRows >>

VARIABLES
  deferredChecks,    \* SteamValidator.deferredChecks (in memory)
  loop,              \* per loop of index.js: its position inside a cycle
  cooled,            \* endpoint classes with every connection in cooldown
  startup,           \* the timer of initializeDeferredChecksFromQueue
  flagged,           \* history: ids whose steam_level answered empty
  downstream,        \* the answer of the ingest API the main loop acts on
  isProcessing       \* the reentrancy flag of processQueuedProfiles

\* the state of the scheduler view
schedVars == << deferredChecks, loop, cooled, startup, flagged, downstream,
               isProcessing >>

vars == << healthy, backoffSequence, config, cooldowns, backoffLevels,
           currentProxyIndex, lastApiCallTime, pc, req, result,
           ncalls, marks, resetCells, paceVars, storeVars, lockVars,
           regVars, schedVars >>

\* JSON.stringify(profiles, null, 2): the text of a queue file, kept as what
\* it parses to
stringify(profiles) == [ parses |-> TRUE, profiles |-> profiles ]

\* a file cut short inside a write: text that JSON.parse rejects
Torn == [ parses |-> FALSE, profiles |-> << >> ]

\* a task outside any QueueManager call
Resting == [ pc |-> "idle" ]

\* the async tasks that call the QueueManager (API handlers and the loops)
QTasks == { "task1", "task2" }

\* the two timer loops of index.js: processQueue and checkProxyStatus
Loops == { "main", "status" }

\* a loop between two cycles
Waiting == [ pc |-> "idle" ]

\* no lock file
NoLock == [ processId |-> Absent ]

\* a task outside withFileLock, in the process processId
Off(processId) ==
  [ pc |-> "idle", processId |-> processId, attempts |-> 0, lockAttempts |-> 0,
    outcome |-> "none", removedStale |-> FALSE ]

\* process.pid of the tasks: one process, or one process each
OneProcess == [ t \in QTasks |-> 1 ]
TwoProcesses == [ t \in QTasks |-> IF t = "task1" THEN 1 ELSE 2 ]

NoRec == [ reason |-> "none" ]
NoReq == [ url |-> "none" ]
NoResult == [ kind |-> "none" ]

Key(connectionIndex, endpoint) == << connectionIndex, endpoint >>

\* connection indices and the cells of the cooldown matrix
Conns == 0..(Len(config) - 1)
Cells == Conns \X Endpoints

\* ProxyManager state threaded through the synchronous helpers
PM == [ cooldowns |-> cooldowns, backoffLevels |-> backoffLevels,
        currentProxyIndex |-> currentProxyIndex ]

EmptyCooldowns == [ e \in Endpoints |-> NoRec ]

createDefaultCooldowns(cfg) ==
  [ i \in 1..Len(cfg) |->
      [ index |-> i - 1, type |-> cfg[i].type, url |-> cfg[i].url,
        endpoint_cooldowns |-> EmptyCooldowns ] ]

\* Get all proxy connections (excluding direct)
getProxyConnections(cfg) == SelectSeq(cfg, LAMBDA conn : conn.type # "direct")

(***************************************************************************)
(* ProxyManager: the cooldown store                                        *)
(***************************************************************************)

\* Clean up expired cooldowns (the backoff level stays in memory)
cleanupExpiredCooldowns(st, t) ==
  [ st EXCEPT !.cooldowns =
      [ i \in 1..Len(st.cooldowns) |->
          [ st.cooldowns[i] EXCEPT !.endpoint_cooldowns =
              [ e \in Endpoints |->
                  LET cooldown == st.cooldowns[i].endpoint_cooldowns[e] IN
                  IF cooldown # NoRec /\ cooldown.cooldown_until <= t
                    THEN NoRec ELSE cooldown ] ] ] ]

cleanupCount(st, t) ==
  Cardinality({ k \in (1..Len(st.cooldowns)) \X Endpoints :
      LET cooldown == st.cooldowns[k[1]].endpoint_cooldowns[k[2]] IN
      cooldown # NoRec /\ cooldown.cooldown_until <= t })

\* Check if a specific connection is available for a specific endpoint
isConnectionAvailableForEndpoint(st, t, connectionIndex, endpoint) ==
  IF connectionIndex + 1 > Len(st.cooldowns) THEN FALSE
  ELSE LET cooldown == st.cooldowns[connectionIndex + 1].endpoint_cooldowns[endpoint] IN
       IF cooldown = NoRec THEN TRUE
       ELSE cooldown.cooldown_until <= t

\* variant: the proxies are scanned from the first one, not from the cursor
getBestConnectionFromFirstProxy(st, cfg, t, endpoint) ==
  IF isConnectionAvailableForEndpoint(st, t, 0, endpoint)
    THEN [ found |-> TRUE, index |-> 0, cursor |-> st.currentProxyIndex ]
  ELSE
    LET n == Len(getProxyConnections(cfg))
        hits == { i \in 0..(n - 1) :
                    isConnectionAvailableForEndpoint(st, t, i + 1, endpoint) }
    IN IF n = 0 \/ hits = {}
         THEN [ found |-> FALSE, index |-> Absent, cursor |-> st.currentProxyIndex ]
         ELSE [ found |-> TRUE, index |-> Min(hits) + 1,
                cursor |-> (Min(hits) + 1) % n ]

\* Get the best available connection for an endpoint
\* (direct first, then round-robin proxies)
getBestConnectionForEndpoint(st, cfg, t, endpoint) ==
  IF isConnectionAvailableForEndpoint(st, t, 0, endpoint)
    THEN [ found |-> TRUE, index |-> 0, cursor |-> st.currentProxyIndex ]
  ELSE
    LET n == Len(getProxyConnections(cfg))
        hits == { i \in 0..(n - 1) :
                    isConnectionAvailableForEndpoint(
                      st, t, ((st.currentProxyIndex + i) % n) + 1, endpoint) }
    IN IF n = 0 \/ hits = {}
         THEN [ found |-> FALSE, index |-> Absent, cursor |-> st.currentProxyIndex ]
         ELSE LET proxyIndex == (st.currentProxyIndex + Min(hits)) % n IN
              [ found |-> TRUE, index |-> proxyIndex + 1,
                cursor |-> (proxyIndex + 1) % n ]

\* const currentLevel = this.backoffLevels.get(key) || 0
currentBackoffLevel(bl, key) == IF key \in DOMAIN bl THEN bl[key] ELSE 0

\* variant: the level wraps around to the first element after the last
newBackoffLevelRollover(currentLevel, seq) == (currentLevel + 1) % Len(seq)

\* variant: the level is not clamped to the sequence
newBackoffLevelUnclamped(currentLevel, seq) == currentLevel + 1

\* const newLevel = Math.min(currentLevel + 1, this.backoffSequence.length - 1)
newBackoffLevel(currentLevel, seq) == Min({ currentLevel + 1, Len(seq) - 1 })

\* this.backoffLevels.set(key, level)
setLevel(bl, key, level) ==
  [ k \in (DOMAIN bl) \cup { key } |-> IF k = key THEN level ELSE bl[k] ]

\* this.backoffLevels.delete(key)
deleteLevel(bl, key) == [ k \in (DOMAIN bl) \ { key } |-> bl[k] ]

\* the record written for a 429
Record429(t, level, minutes, cooldownDuration) ==
  [ cooldown_until |-> t + cooldownDuration, reason |-> "429",
    backoff_level |-> level, applied_at |-> t,
    duration_minutes |-> minutes, duration_used |-> Absent ]

\* the record written for any other error type
RecordOther(t, errorType, cooldownDuration) ==
  [ cooldown_until |-> t + cooldownDuration, reason |-> errorType,
    backoff_level |-> Absent, applied_at |-> t,
    duration_minutes |-> Absent, duration_used |-> cooldownDuration ]

\* fixed duration of a non-429 error type
durationFor(errorType) ==
  CASE errorType = "connection_error" -> cooldownDurations.connection_reset
    [] errorType = "timeout"          -> cooldownDurations.timeout
    [] errorType = "dns_failure"      -> cooldownDurations.dns_failure
    [] errorType = "socks_error"      -> cooldownDurations.socks_error
    [] OTHER                          -> UnknownErrorCooldown

setRecord(cds, connectionIndex, endpoint, rec) ==
  [ cds EXCEPT ![connectionIndex + 1].endpoint_cooldowns[endpoint] = rec ]

markConnectionCooldownForEndpoint(st, t, seq, connectionIndex, endpoint, errorType) ==
  IF connectionIndex + 1 > Len(st.cooldowns) THEN st
  ELSE IF errorType = "429" THEN
    LET key == Key(connectionIndex, endpoint)
        currentLevel == currentBackoffLevel(st.backoffLevels, key)
        newLevel == newBackoffLevel(currentLevel, seq)
        levels == setLevel(st.backoffLevels, key, newLevel)
    IN IF newLevel >= Len(seq)
         THEN [ st EXCEPT
                  !.backoffLevels = levels,
                  !.cooldowns = setRecord(st.cooldowns, connectionIndex, endpoint,
                     Record429(t, newLevel, FallbackMinutes,
                               FallbackMinutes * 60 * 1000)) ]
         ELSE LET cooldownMinutes == seq[newLevel + 1] IN
              [ st EXCEPT
                  !.backoffLevels = levels,
                  !.cooldowns = setRecord(st.cooldowns, connectionIndex, endpoint,
                     Record429(t, newLevel, cooldownMinutes,
                               cooldownMinutes * 60 * 1000)) ]
  ELSE
    [ st EXCEPT !.cooldowns =
        setRecord(st.cooldowns, connectionIndex, endpoint,
                  RecordOther(t, errorType, durationFor(errorType))) ]

\* Helper method to get the next backoff duration for logging
getNextBackoffDuration(currentLevel, seq) ==
  IF currentLevel + 1 >= Len(seq) THEN seq[1] ELSE seq[currentLevel + 2]

\* variant: the success path removes whatever record the cell holds
resetBackoffOnSuccessAnyRecord(st, connectionIndex, endpoint) ==
  IF connectionIndex + 1 > Len(st.cooldowns) THEN st
  ELSE [ st EXCEPT
           !.backoffLevels = deleteLevel(st.backoffLevels, Key(connectionIndex, endpoint)),
           !.cooldowns = setRecord(st.cooldowns, connectionIndex, endpoint, NoRec) ]

\* Reset backoff on successful request
resetBackoffOnSuccess(st, connectionIndex, endpoint) ==
  IF connectionIndex + 1 > Len(st.cooldowns) THEN st
  ELSE
    LET cooldown == st.cooldowns[connectionIndex + 1].endpoint_cooldowns[endpoint]
        key == Key(connectionIndex, endpoint)
    IN [ st EXCEPT
           !.backoffLevels = deleteLevel(st.backoffLevels, key),
           !.cooldowns = IF cooldown # NoRec /\ cooldown.reason = "429"
                           THEN setRecord(st.cooldowns, connectionIndex, endpoint, NoRec)
                           ELSE st.cooldowns ]

\* Check if all connections are in cooldown for a specific endpoint
\* (cleans up first; the cleaned store is returned in .st)
areAllConnectionsInCooldownForEndpoint(st, cfg, t, endpoint) ==
  LET cleaned == cleanupExpiredCooldowns(st, t)
      availableCount == Cardinality({ i \in 0..(Len(cfg) - 1) :
          isConnectionAvailableForEndpoint(cleaned, t, i, endpoint) })
  IN [ st |-> cleaned, allInCooldown |-> (availableCount = 0) ]

\* variant: the latest expiry instead of the earliest
getLatestAvailableTimeForEndpoint(st, t, endpoint) ==
  LET untils == { st.cooldowns[i].endpoint_cooldowns[endpoint].cooldown_until :
                    i \in { j \in 1..Len(st.cooldowns) :
                              st.cooldowns[j].endpoint_cooldowns[endpoint] # NoRec } }
  IN IF untils = {} THEN 0 ELSE Max({ 0, Max(untils) - t })

\* a wait that is zero as soon as a connection has no record or an expired
\* record for the class
getNextAvailableTimeOrZero(st, t, endpoint) ==
  LET recs == { st.cooldowns[i].endpoint_cooldowns[endpoint] : i \in 1..Len(st.cooldowns) }
  IN IF \E rec \in recs : rec = NoRec \/ rec.cooldown_until <= t
       THEN 0
       ELSE Min({ rec.cooldown_until : rec \in recs }) - t

\* Get next available time for an endpoint across all connections
getNextAvailableTimeForEndpoint(st, t, endpoint) ==
  LET untils == { st.cooldowns[i].endpoint_cooldowns[endpoint].cooldown_until :
                    i \in { j \in 1..Len(st.cooldowns) :
                              st.cooldowns[j].endpoint_cooldowns[endpoint] # NoRec } }
      earliestTime == Min(untils \cup { MAX_SAFE_INTEGER })
  IN IF earliestTime = MAX_SAFE_INTEGER THEN 0 ELSE Max({ 0, earliestTime - t })

\* Create axios instance for a specific endpoint: the connection it is
\* bound to, or the all-in-cooldown signal
RECURSIVE createAxiosInstance(_, _, _, _, _)
createAxiosInstance(st, cfg, t, seq, url) ==
  LET endpointName == getEndpointName(url)
      bestConnection == getBestConnectionForEndpoint(st, cfg, t, endpointName)
  IN IF ~bestConnection.found
       THEN [ st |-> st, allInCooldown |-> TRUE, index |-> Absent,
              nextAvailableIn |-> getNextAvailableTimeForEndpoint(st, t, endpointName),
              endpointName |-> endpointName ]
     ELSE
       LET st1 == [ st EXCEPT !.currentProxyIndex = bestConnection.cursor ]
           connection == cfg[bestConnection.index + 1]
       IN IF connection.type = "socks5" /\ ~ValidSocksUrl(connection.url)
            THEN createAxiosInstance(
                   markConnectionCooldownForEndpoint(
                     st1, t, seq, bestConnection.index, endpointName, "socks_error"),
                   cfg, t, seq, url)
            ELSE [ st |-> st1, allInCooldown |-> FALSE,
                   index |-> bestConnection.index, nextAvailableIn |-> 0,
                   endpointName |-> endpointName ]

(***************************************************************************)
(* Upstream responses                                                      *)
(***************************************************************************)
HttpOk == [ status |-> 200, message |-> "OK" ]
HttpError(s) == [ status |-> s, message |-> "Request failed with status code" ]
NetError(m) == [ status |-> Absent, message |-> m ]

Responses ==
  { HttpOk, HttpError(429), HttpError(401), HttpError(403), HttpError(500),
    NetError("Socks5 proxy rejected connection"),
    NetError("timeout of 15000ms exceeded") }

\* the needles of isConnectionError / handleRequestError each message contains
\* (message.toLowerCase() for the 'socks' test)
Needles(message) ==
  CASE message = "Socks5 proxy rejected connection" -> { "socks" }
    [] message = "read ECONNRESET"                  -> { "ECONNRESET" }
    [] message = "timeout of 15000ms exceeded"      -> { "timeout" }
    [] message = "getaddrinfo ENOTFOUND"            -> { "ENOTFOUND" }
    [] OTHER                                        -> {}

\* Helper method to detect connection errors
isConnectionError(error) ==
  Needles(error.message) \cap
    { "socket disconnected", "socket hang up", "ECONNRESET", "ECONNREFUSED",
      "ETIMEDOUT", "EHOSTUNREACH", "timeout", "certificate", "SSL", "TLS",
      "ENOTFOUND" } # {}

\* Categorize connection errors for appropriate cooldown durations
categorizeConnectionError(error) ==
  IF Needles(error.message) \cap { "ENOTFOUND", "EHOSTUNREACH" } # {}
    THEN "dns_failure"
  ELSE IF Needles(error.message) \cap { "timeout", "ETIMEDOUT" } # {}
    THEN "timeout"
  ELSE "connection_error"

\* Handle request errors and mark cooldowns appropriately; index and
\* endpointName are the _connectionInfo of the axios config handed in
handleRequestError(st, t, seq, error, index, endpointName) ==
  IF error.status = 429
    THEN [ st |-> markConnectionCooldownForEndpoint(st, t, seq, index, endpointName, "429"),
           kind |-> "rateLimited" ]
  ELSE IF "socks" \in Needles(error.message)
    THEN [ st |-> markConnectionCooldownForEndpoint(st, t, seq, index, endpointName,
                                                    "socks_error"),
           kind |-> "socksError" ]
  ELSE IF isConnectionError(error)
    THEN [ st |-> markConnectionCooldownForEndpoint(st, t, seq, index, endpointName,
                                                    categorizeConnectionError(error)),
           kind |-> "connectionError" ]
  ELSE [ st |-> st, kind |-> "error" ]

\* makeApiRequest: the private-data signals returned without error handling
isPrivateSignal(endpointName, error) ==
  \/ endpointName = "inventory" /\ error.status = 403
  \/ endpointName = "friends" /\ error.status = 401

\* the connection whose cell the error handling of makeApiRequest acts on:
\* the _connectionInfo of the instance created again in the catch block
errorHandlingIndex(inst, usedIndex) == inst.index

(***************************************************************************)
(* SteamValidator.makeApiRequest as steps between its awaits               *)
(***************************************************************************)
Deferred(nextAvailableIn, endpointName) ==
  [ kind |-> "deferred", nextAvailableIn |-> nextAvailableIn,
    endpointName |-> endpointName ]

SetPM(st) ==
  /\ cooldowns' = st.cooldowns
  /\ backoffLevels' = st.backoffLevels
  /\ currentProxyIndex' = st.currentProxyIndex

\* makeApiRequest after respectRateLimit, at time t: createAxiosInstance,
\* then either the all-in-cooldown return or the start of the HTTP call
\* (attempts and column0 are history kept with the request: the answered
\* attempts so far, the records of its class when the request began)
Dispatch(p, st, url, attempts, column0, t, budget) ==
  LET axiosInstance == createAxiosInstance(st, config, t, backoffSequence, url) IN
  /\ SetPM(axiosInstance.st)
  /\ IF axiosInstance.allInCooldown
       THEN /\ UNCHANGED ncalls
            /\ pc' = [ pc EXCEPT ![p] = "done" ]
            /\ req' = [ req EXCEPT ![p] =
                 [ url |-> url, index |-> Absent, wakeAt |-> Absent,
                   attempts |-> attempts, column0 |-> column0 ] ]
            /\ result' = [ result EXCEPT ![p] =
                 Deferred(axiosInstance.nextAvailableIn, axiosInstance.endpointName) ]
       ELSE /\ ncalls < budget
            /\ ncalls' = ncalls + 1
            /\ pc' = [ pc EXCEPT ![p] = "inflight" ]
            /\ req' = [ req EXCEPT ![p] =
                 [ url |-> url, index |-> axiosInstance.index, wakeAt |-> Absent,
                   attempts |-> attempts, column0 |-> column0 ] ]
            /\ result' = [ result EXCEPT ![p] = NoResult ]

\* entry of makeApiRequest: the synchronous part of respectRateLimit
Enter(p, st, url, attempts, column0, budget) ==
  LET timeSinceLast == now - lastApiCallTime IN
  IF timeSinceLast < minApiCallInterval
    THEN /\ SetPM(st)
         /\ pc' = [ pc EXCEPT ![p] = "pacing" ]
         /\ req' = [ req EXCEPT ![p] =
              [ url |-> url, index |-> Absent,
                wakeAt |-> now + (minApiCallInterval - timeSinceLast),
                attempts |-> attempts, column0 |-> column0 ] ]
         /\ result' = [ result EXCEPT ![p] = NoResult ]
         /\ UNCHANGED << lastApiCallTime, ncalls >>
    ELSE /\ lastApiCallTime' = now
         /\ Dispatch(p, st, url, attempts, column0, now, budget)

\* a check of one of the loops calls makeApiRequest(url)
StartRequest(p, url, budget) ==
  /\ pc[p] = "idle"
  /\ Enter(p, PM, url, << >>,
           [ i \in Conns |-> cooldowns[i + 1].endpoint_cooldowns[getEndpointName(url)] ],
           budget)
  /\ UNCHANGED << healthy, backoffSequence, config, marks, resetCells >>
  /\ UNCHANGED << paceVars, storeVars, lockVars, regVars, schedVars >>

\* the pacing timer of respectRateLimit fires.  The wait is at most
\* minApiCallInterval, below the one-minute step of Tick, so the present
\* does not move over the wait.
PaceWake(p, budget) ==
  /\ pc[p] = "pacing"
  /\ \A q \in Procs : pc[q] = "pacing" => req[q].wakeAt >= req[p].wakeAt
  /\ lastApiCallTime' = now
  /\ Dispatch(p, PM, req[p].url, req[p].attempts, req[p].column0, now, budget)
  /\ UNCHANGED << healthy, backoffSequence, config, marks, resetCells >>
  /\ UNCHANGED << paceVars, storeVars, lockVars, regVars, schedVars >>

Finished(p, st, attempts, res) ==
  /\ SetPM(st)
  /\ pc' = [ pc EXCEPT ![p] = "done" ]
  /\ req' = [ req EXCEPT ![p].attempts = attempts ]
  /\ result' = [ result EXCEPT ![p] = res ]
  /\ UNCHANGED << lastApiCallTime, ncalls >>

\* retryWithNextConnection
retryWithNextConnection(p, st, url, endpointName, attempts, budget) ==
  LET all == areAllConnectionsInCooldownForEndpoint(st, config, now, endpointName) IN
  IF ~all.allInCooldown
    THEN Enter(p, all.st, url, attempts, req[p].column0, budget)
    ELSE Finished(p, all.st, attempts,
           Deferred(getNextAvailableTimeForEndpoint(all.st, now, endpointName),
                    endpointName))

\* what may come back from a call made through connection index: 200 on a
\* path the upstream always serves, a SOCKS failure only through a proxy
Answers(connectionIndex) ==
  IF config[connectionIndex + 1].url \in healthy THEN { HttpOk }
  ELSE IF config[connectionIndex + 1].type = "direct"
    THEN { r \in Responses : "socks" \notin Needles(r.message) }
  ELSE Responses

\* history: a success on cell removes its level
NoteReset(cell) ==
  /\ marks' = [ marks EXCEPT ![cell] = 0 ]
  /\ resetCells' = IF marks[cell] >= 1 THEN resetCells \cup { cell } ELSE resetCells

\* history: a 429 mark on cell
NoteMark(cell) ==
  /\ marks' = [ marks EXCEPT ![cell] = @ + 1 ]
  /\ resetCells' = resetCells \ { cell }

\* the upstream answers the HTTP call of p with r and makeApiRequest resumes:
\* success path or catch block, up to its next await or its return
Respond(p, r, budget) ==
  /\ pc[p] = "inflight"
  /\ r \in Answers(req[p].index)
  /\ LET url == req[p].url
         endpointName == getEndpointName(url)
         connectionIndex == req[p].index
         error == r
         attempts == Append(req[p].attempts,
                            [ index |-> connectionIndex, response |-> r ])
     IN IF error.status = 200
          THEN /\ Finished(p, resetBackoffOnSuccess(PM, connectionIndex, endpointName),
                           attempts, [ kind |-> "ok" ])
               /\ NoteReset(Key(connectionIndex, endpointName))
        ELSE IF isPrivateSignal(endpointName, error)
          THEN /\ Finished(p, PM, attempts, [ kind |-> "private" ])
               /\ UNCHANGED << marks, resetCells >>
        ELSE
          LET axiosInstanceForError ==
                createAxiosInstance(PM, config, now, backoffSequence, url)
          IN IF ~axiosInstanceForError.allInCooldown
               THEN LET handled == errorHandlingIndex(axiosInstanceForError,
                                                      connectionIndex)
                        errorResult ==
                          handleRequestError(axiosInstanceForError.st, now,
                            backoffSequence, error, handled, endpointName)
                    IN /\ IF errorResult.kind \in
                               { "rateLimited", "socksError", "connectionError" }
                            THEN retryWithNextConnection(p, errorResult.st, url,
                                                         endpointName, attempts, budget)
                            ELSE Finished(p, errorResult.st, attempts,
                                          [ kind |-> "failed" ])
                       /\ IF errorResult.kind = "rateLimited"
                            THEN NoteMark(Key(handled, endpointName))
                            ELSE UNCHANGED << marks, resetCells >>
               ELSE /\ Finished(p, axiosInstanceForError.st, attempts,
                                [ kind |-> "failed" ])
                    /\ UNCHANGED << marks, resetCells >>
  /\ UNCHANGED << healthy, backoffSequence, config >>
  /\ UNCHANGED << paceVars, storeVars, lockVars, regVars, schedVars >>

\* the caller takes the outcome of makeApiRequest
Return(p) ==
  /\ pc[p] = "done"
  /\ pc' = [ pc EXCEPT ![p] = "idle" ]
  /\ req' = [ req EXCEPT ![p] = NoReq ]
  /\ result' = [ result EXCEPT ![p] = NoResult ]
  /\ UNCHANGED << healthy, backoffSequence, config, cooldowns, backoffLevels,
                  currentProxyIndex, lastApiCallTime, ncalls, marks, resetCells >>
  /\ UNCHANGED << paceVars, storeVars, lockVars, regVars, schedVars >>

(***************************************************************************)
(* Startup, periodic cleanup, the clock                                    *)
(***************************************************************************)

\* Array.prototype.find: the first of the matching positions, 0 if none
FirstOf(hits) == IF hits = {} THEN 0 ELSE Min(hits)

\* Sync cooldowns with current config connections (three match strategies)
ensureCooldownStructure(cfg, originalCooldowns) ==
  [ i \in 1..Len(cfg) |->
      LET conn == cfg[i]
          positions == 1..Len(originalCooldowns)
          s1 == FirstOf({ j \in positions :
                  /\ originalCooldowns[j].index = i - 1
                  /\ originalCooldowns[j].type = conn.type
                  /\ originalCooldowns[j].url = conn.url })
          s2 == FirstOf({ j \in positions :
                  /\ originalCooldowns[j].type = conn.type
                  /\ originalCooldowns[j].url = conn.url })
          s3 == IF conn.type = "direct"
                  THEN FirstOf({ j \in positions : originalCooldowns[j].type = "direct" })
                  ELSE 0
          existing == IF s1 # 0 THEN s1 ELSE IF s2 # 0 THEN s2 ELSE s3
      IN [ index |-> i - 1, type |-> conn.type, url |-> conn.url,
           endpoint_cooldowns |->
             IF existing # 0 THEN originalCooldowns[existing].endpoint_cooldowns
                             ELSE EmptyCooldowns ] ]

\* Initialize backoff levels from file on startup
initializeBackoffLevelsFromFile(cds) ==
  LET seeded == { k \in (1..Len(cds)) \X Endpoints :
                    LET cooldown == cds[k[1]].endpoint_cooldowns[k[2]] IN
                    /\ cooldown # NoRec
                    /\ cooldown.reason = "429"
                    /\ cooldown.backoff_level # Absent }
  IN [ key \in { Key(cds[k[1]].index, k[2]) : k \in seeded } |->
         LET i == CHOOSE j \in 1..Len(cds) : cds[j].index = key[1] /\ << j, key[2] >> \in seeded
         IN cds[i].endpoint_cooldowns[key[2]].backoff_level ]

Idle == [ p \in Procs |-> "idle" ]

\* State after construction with no cooldown file present
\* the process at start, in one of the deployments D
InitCoreIn(D) ==
  /\ \E d \in D :
       /\ backoffSequence = d.sequence
       /\ config = d.connections
       /\ healthy = d.healthy
  /\ cooldowns = createDefaultCooldowns(config)
  /\ backoffLevels = initializeBackoffLevelsFromFile(cooldowns)
  /\ currentProxyIndex = 0
  /\ lastApiCallTime = LongAgo
  /\ pc = Idle
  /\ req = [ p \in Procs |-> NoReq ]
  /\ result = [ p \in Procs |-> NoResult ]
  /\ ncalls = 0
  /\ marks = [ cell \in Cells |-> 0 ]
  /\ resetCells = {}
  /\ clock = 0
  /\ wakeAt = [ p \in Procs |-> Absent ]
  /\ dispatchTimes = << >>
  /\ removedRows = << >>

InitCore == InitCoreIn(Deployments)

\* the store at start, over the queue file found on disk, with the tasks
\* in the processes pids gives them
InitFiles(file, pids) ==
  /\ queueFile = file
  /\ task = [ t \in QTasks |-> Resting ]
  /\ nops = 0
  /\ lockFile = NoLock
  /\ worker = [ t \in QTasks |-> Off(pids[t]) ]
  /\ ncrash = 0

\* the scheduler at start: nothing deferred in memory, both loops between
\* cycles, the endpoint classes in c cooled down on every connection, the
\* startup timer in the state s
InitScheduler(c, s) ==
  /\ deferredChecks = << >>
  /\ loop = [ l \in Loops |-> Waiting ]
  /\ cooled = c
  /\ startup = s
  /\ flagged = {}
  /\ downstream = NoResult
  /\ isProcessing = FALSE

InitStore(file, pids) == InitFiles(file, pids) /\ InitScheduler({}, "done")

\* ensureQueueFileExists: a first start writes '[]'
Init == InitCore /\ InitStore(stringify(<< >>), OneProcess)

\* the process is stopped and started again: memory is lost, the cooldown
\* file is read back (ProxyManager and SteamValidator constructors)
Restart ==
  /\ cooldowns' = ensureCooldownStructure(config, cooldowns)
  /\ backoffLevels' = initializeBackoffLevelsFromFile(cooldowns')
  /\ currentProxyIndex' = 0
  /\ lastApiCallTime' = LongAgo
  /\ pc' = Idle
  /\ req' = [ p \in Procs |-> NoReq ]
  /\ result' = [ p \in Procs |-> NoResult ]
  /\ marks' = [ cell \in Cells |->
                  IF cell \in DOMAIN backoffLevels' THEN marks[cell] ELSE 0 ]
  /\ resetCells' = {}
  /\ UNCHANGED << healthy, backoffSequence, config, ncalls >>
  /\ UNCHANGED << paceVars, storeVars, lockVars, regVars, schedVars >>

\* checkProxyStatus: periodic cleanupExpiredCooldowns
Cleanup ==
  /\ cleanupCount(PM, now) > 0
  /\ cooldowns' = cleanupExpiredCooldowns(PM, now).cooldowns
  /\ UNCHANGED << healthy, backoffSequence, config, backoffLevels, currentProxyIndex,
                  lastApiCallTime, pc, req, result, ncalls, marks, resetCells >>
  /\ UNCHANGED << paceVars, storeVars, lockVars, regVars, schedVars >>

\* a timestamp one minute later, seen from the new present
Older(t, floor) == Max({ floor, t - MsPerMinute })

OlderRecord(rec) ==
  IF rec = NoRec THEN rec
  ELSE LET until == Older(rec.cooldown_until, now) IN
       [ rec EXCEPT !.cooldown_until = until,
                    !.applied_at = until - (rec.cooldown_until - rec.applied_at) ]

\* a minute passes.  A pacing wait lasts at most minApiCallInterval and an
\* HTTP call at most its timeout, both shorter than a minute: the minute
\* boundary is taken while no request is inside either
Tick ==
  /\ \A p \in Procs : pc[p] = "pacing" => minApiCallInterval >= MsPerMinute
  /\ \A p \in Procs : pc[p] = "inflight" =>
        getTimeoutForEndpoint(getEndpointName(req[p].url)) >= MsPerMinute
  /\ cooldowns' = [ i \in 1..Len(cooldowns) |->
        [ cooldowns[i] EXCEPT !.endpoint_cooldowns =
            [ e \in Endpoints |-> OlderRecord(cooldowns[i].endpoint_cooldowns[e]) ] ] ]
  /\ lastApiCallTime' = Older(lastApiCallTime, LongAgo)
  /\ req' = [ p \in Procs |->
        IF pc[p] = "pacing"
          THEN [ req[p] EXCEPT !.wakeAt = Older(req[p].wakeAt, now) ]
          ELSE req[p] ]
  /\ UNCHANGED << healthy, backoffSequence, config, backoffLevels,
                  currentProxyIndex, pc, result, ncalls, marks, resetCells >>
  /\ UNCHANGED << paceVars, storeVars, lockVars, regVars, schedVars >>

\* the steps of the loops in P with at most budget upstream calls
Step(P, budget) ==
  \/ \E p \in P, url \in Urls : StartRequest(p, url, budget)
  \/ \E p \in P : PaceWake(p, budget)
  \/ \E p \in P, r \in Responses : Respond(p, r, budget)
  \/ \E p \in P : Return(p)
  \/ Cleanup
  \/ Tick
  \/ Restart

\* both loops of index.js issue requests
Next == Step(Procs, MaxCalls)

Spec == Init /\ [][Next]_vars

\* only the main loop issues requests
NextSeq == Step({ "main" }, MaxCallsSeq)

SpecSeq == Init /\ [][NextSeq]_vars

(***************************************************************************)
(* The pacing of upstream calls on a fine clock: respectRateLimit as run   *)
(* by the two loops and by the retry recursion.  Which connection a call   *)
(* takes plays no part in the pacing and is left out of this view.         *)
(***************************************************************************)

\* the step of the fine clock, its last value, the calls of one behaviour
PaceGrain == 500
MaxPaceClock == 2500
MaxDispatches == 3

coreVars == << healthy, backoffSequence, config, cooldowns, backoffLevels,
               currentProxyIndex, req, result, marks, resetCells, storeVars,
               lockVars, regVars, schedVars >>

\* the HTTP call of p leaves at the present clock
DispatchAt(p) ==
  /\ ncalls < MaxDispatches
  /\ ncalls' = ncalls + 1
  /\ lastApiCallTime' = clock
  /\ dispatchTimes' = Append(dispatchTimes, clock)
  /\ pc' = [ pc EXCEPT ![p] = "inflight" ]
  /\ wakeAt' = [ wakeAt EXCEPT ![p] = Absent ]

\* respectRateLimit up to its await: the wait is computed from the
\* lastApiCallTime read on entry
respectRateLimit(p) ==
  LET currentTime == clock
      timeSinceLast == currentTime - lastApiCallTime
  IN IF timeSinceLast < minApiCallInterval
       THEN /\ pc' = [ pc EXCEPT ![p] = "pacing" ]
            /\ wakeAt' = [ wakeAt EXCEPT ![p] =
                             clock + (minApiCallInterval - timeSinceLast) ]
            /\ UNCHANGED << lastApiCallTime, ncalls, dispatchTimes >>
       ELSE DispatchAt(p)

\* a check of the loop p calls makeApiRequest
PaceCall(p) ==
  /\ pc[p] = "idle"
  /\ respectRateLimit(p)
  /\ UNCHANGED << clock, coreVars >>

\* the timer of respectRateLimit fires and the call leaves
PaceTimer(p) ==
  /\ pc[p] = "pacing"
  /\ wakeAt[p] <= clock
  /\ DispatchAt(p)
  /\ UNCHANGED << clock, coreVars >>

\* the call of p is answered: makeApiRequest returns, or
\* retryWithNextConnection calls makeApiRequest again
PaceAnswer(p, retry) ==
  /\ pc[p] = "inflight"
  /\ IF retry
       THEN respectRateLimit(p)
       ELSE /\ pc' = [ pc EXCEPT ![p] = "idle" ]
            /\ UNCHANGED << lastApiCallTime, ncalls, dispatchTimes, wakeAt >>
  /\ UNCHANGED << clock, coreVars >>

\* the clock advances; a due timer fires before it does
PaceTick ==
  /\ clock + PaceGrain <= MaxPaceClock
  /\ \A p \in Procs : pc[p] = "pacing" => wakeAt[p] > clock
  /\ clock' = clock + PaceGrain
  /\ UNCHANGED << coreVars, lastApiCallTime, pc, ncalls, wakeAt, dispatchTimes >>

StepPace(P) ==
  \/ \E p \in P : PaceCall(p)
  \/ \E p \in P : PaceTimer(p)
  \/ \E p \in P, retry \in BOOLEAN : PaceAnswer(p, retry)
  \/ PaceTick

NextPace == StepPace(Procs)

SpecPace == Init /\ [][NextPace]_vars

(***************************************************************************)
(* QueueManager: the operations on the queue file.  The file steps of the  *)
(* operations are taken as they can interleave; the lock that is meant to  *)
(* serialise them is the subject of the lock view further down.            *)
(***************************************************************************)

\* the calls of one behaviour
MaxQueueOps == 3

CheckNames ==
  { "animated_avatar", "avatar_frame", "mini_profile_background",
    "profile_background", "steam_level", "friends", "csgo_inventory" }

validStatuses == { "to_check", "passed", "failed", "deferred" }

\* inputs: the statuses a caller may pass (one outside the valid ones), the
\* check names updated (two of the seven), the ids and the usernames (the
\* empty string fails the username validation)
StatusInputs == validStatuses \cup { "done" }
NameInputs == { "steam_level", "friends" }
SteamIds == { "id1", "id2" }
UsernameInputs == { "alice", "bob", "" }

\* values returned by the operations
Null == [ kind |-> "null" ]
Bool(b) == [ kind |-> "bool", value |-> b ]
Prof(profile) == [ kind |-> "profile", profile |-> profile ]

\* a profile object without the inventory check
NewProfileNoInventory(steamId, username) ==
  [ steam_id |-> steamId, username |-> username,
    checks |-> [ n \in CheckNames \ { "csgo_inventory" } |-> "to_check" ] ]

\* addProfileToQueue: the new profile object (its timestamp plays no part)
NewProfile(steamId, username) ==
  [ steam_id |-> steamId, username |-> username,
    checks |-> [ n \in CheckNames |-> "to_check" ] ]

\* _readQueueProfilesInternal / readQueueProfiles: a file that does not
\* parse reads as the empty array
readQueueProfilesInternal(file) == IF file.parses THEN file.profiles ELSE << >>

\* Array.prototype.findIndex on steam_id, 1-based, 0 when absent
findIndex(profiles, steamId) ==
  FirstOf({ i \in 1..Len(profiles) : profiles[i].steam_id = steamId })

\* Array.prototype.filter(p => p.steam_id !== steamId)
RECURSIVE filterOut(_, _)
filterOut(profiles, steamId) ==
  IF profiles = << >> THEN << >>
  ELSE IF Head(profiles).steam_id = steamId
    THEN filterOut(Tail(profiles), steamId)
  ELSE << Head(profiles) >> \o filterOut(Tail(profiles), steamId)

\* what an operation decides on the array it read: the value it returns
\* and, when it saves, the array it writes
Outcome(ret, save, profiles) == [ ret |-> ret, save |-> save, profiles |-> profiles ]

\* an add that does not look for the steam_id first
addProfileToQueueUnchecked(profiles, steamId, username) ==
  IF username = "" THEN Outcome(Null, FALSE, profiles)
  ELSE Outcome(Prof(NewProfile(steamId, username)), TRUE,
               Append(profiles, NewProfile(steamId, username)))

\* addProfileToQueue inside the lock (apiService is null in every call)
addProfileToQueue(profiles, steamId, username) ==
  LET existing == findIndex(profiles, steamId) IN
  IF existing # 0 THEN Outcome(Prof(profiles[existing]), FALSE, profiles)
  ELSE IF username = "" THEN Outcome(Null, FALSE, profiles)
  ELSE Outcome(Prof(NewProfile(steamId, username)), TRUE,
               Append(profiles, NewProfile(steamId, username)))

\* profiles[profileIndex].checks[checkName] = status
setCheck(profile, checkName, status) ==
  [ profile EXCEPT !.checks =
      [ n \in DOMAIN profile.checks \cup { checkName } |->
          IF n = checkName THEN status ELSE profile.checks[n] ] ]

\* an update that takes any status
updateProfileCheckAnyStatus(profiles, steamId, checkName, status) ==
  LET profileIndex == findIndex(profiles, steamId) IN
  IF profileIndex = 0 THEN Outcome(Bool(FALSE), FALSE, profiles)
  ELSE Outcome(Bool(TRUE), TRUE,
         [ profiles EXCEPT ![profileIndex] = setCheck(@, checkName, status) ])

\* updateProfileCheck inside the lock
updateProfileCheck(profiles, steamId, checkName, status) ==
  LET profileIndex == findIndex(profiles, steamId) IN
  IF profileIndex = 0 THEN Outcome(Bool(FALSE), FALSE, profiles)
  ELSE IF status \notin validStatuses THEN Outcome(Bool(FALSE), FALSE, profiles)
  ELSE Outcome(Bool(TRUE), TRUE,
         [ profiles EXCEPT ![profileIndex] = setCheck(@, checkName, status) ])

\* removeProfileFromQueue inside the lock
removeProfileFromQueue(profiles, steamId) ==
  LET filteredProfiles == filterOut(profiles, steamId) IN
  IF Len(filteredProfiles) < Len(profiles)
    THEN Outcome(Bool(TRUE), TRUE, filteredProfiles)
    ELSE Outcome(Bool(FALSE), FALSE, profiles)

hasToCheck(profile) == \E n \in DOMAIN profile.checks : profile.checks[n] = "to_check"
hasDeferred(profile) == \E n \in DOMAIN profile.checks : profile.checks[n] = "deferred"

\* the first loop of getNextProcessableProfile, from position i on
RECURSIVE firstLoop(_, _)
firstLoop(profiles, i) ==
  IF i > Len(profiles) THEN 0
  ELSE IF hasToCheck(profiles[i]) THEN i
  ELSE IF ~hasToCheck(profiles[i]) /\ ~hasDeferred(profiles[i]) THEN i
  ELSE firstLoop(profiles, i + 1)

\* its second loop
RECURSIVE secondLoop(_, _)
secondLoop(profiles, i) ==
  IF i > Len(profiles) THEN 0
  ELSE IF hasDeferred(profiles[i]) THEN i
  ELSE secondLoop(profiles, i + 1)

\* a selection that looks through the whole queue for a to_check profile
\* before it takes a complete one
getNextProcessableProfileToCheckFirst(profiles) ==
  LET toCheck == { i \in 1..Len(profiles) : hasToCheck(profiles[i]) }
      rest == { i \in 1..Len(profiles) : ~hasDeferred(profiles[i]) }
  IN IF toCheck # {} THEN Prof(profiles[Min(toCheck)])
     ELSE IF rest # {} THEN Prof(profiles[Min(rest)])
     ELSE IF profiles # << >> THEN Prof(profiles[1])
     ELSE Null

\* getNextProcessableProfile on the array read
getNextProcessableProfile(profiles) ==
  IF Len(profiles) = 0 THEN Null
  ELSE IF firstLoop(profiles, 1) # 0 THEN Prof(profiles[firstLoop(profiles, 1)])
  ELSE IF secondLoop(profiles, 1) # 0 THEN Prof(profiles[secondLoop(profiles, 1)])
  ELSE Null

\* the calls a task may make
AddOp(steamId, username) == [ kind |-> "add", steamId |-> steamId, username |-> username ]
UpdateOp(steamId, checkName, status) ==
  [ kind |-> "update", steamId |-> steamId, checkName |-> checkName, status |-> status ]
RemoveOp(steamId) == [ kind |-> "remove", steamId |-> steamId ]
NextOp == [ kind |-> "next" ]

Mutations ==
  { AddOp(i, u) : i \in SteamIds, u \in UsernameInputs }
    \cup { UpdateOp(i, n, st) : i \in SteamIds, n \in NameInputs, st \in StatusInputs }
    \cup { RemoveOp(i) : i \in SteamIds }

\* the operation of a call, applied to the array it read
Apply(op, profiles) ==
  IF op.kind = "add" THEN addProfileToQueue(profiles, op.steamId, op.username)
  ELSE IF op.kind = "update"
    THEN updateProfileCheck(profiles, op.steamId, op.checkName, op.status)
  ELSE IF op.kind = "remove" THEN removeProfileFromQueue(profiles, op.steamId)
  ELSE Outcome(getNextProcessableProfile(profiles), FALSE, profiles)

\* what the queue store leaves alone
otherVars == << healthy, backoffSequence, config, cooldowns, backoffLevels,
                currentProxyIndex, lastApiCallTime, pc, req, result,
                ncalls, marks, resetCells, paceVars, lockVars, regVars,
                schedVars >>

\* a task calls an operation of the QueueManager
Call(t, op) ==
  /\ task[t].pc = "idle"
  /\ nops < MaxQueueOps
  /\ nops' = nops + 1
  /\ task' = [ task EXCEPT ![t] = [ pc |-> "read", op |-> op ] ]
  /\ UNCHANGED << queueFile, otherVars >>

\* the read of the file resolves and the operation runs up to its save, or
\* to its return when it saves nothing
ReadStep(t) ==
  /\ task[t].pc = "read"
  /\ LET profiles == readQueueProfilesInternal(queueFile)
         outcome == Apply(task[t].op, profiles)
     IN task' = [ task EXCEPT ![t] =
          [ pc |-> IF outcome.save THEN "write" ELSE "done",
            op |-> task[t].op,
            pending |-> outcome.profiles, ret |-> outcome.ret ] ]
  /\ UNCHANGED << queueFile, nops, otherVars >>

\* _writeQueueProfilesInternal: fs.writeFile opens the queue file itself,
\* which truncates it
WriteOpen(t) ==
  /\ task[t].pc = "write"
  /\ queueFile' = Torn
  /\ task' = [ task EXCEPT ![t].pc = "writing" ]
  /\ UNCHANGED << nops, otherVars >>

\* fs.writeFile completes; two writes of the same file at once may leave
\* either text, or a mix that does not parse
WriteClose(t) ==
  /\ task[t].pc = "writing"
  /\ \/ queueFile' = stringify(task[t].pending)
     \/ /\ \E u \in QTasks \ { t } : task[u].pc = "writing"
        /\ queueFile' = Torn
  /\ task' = [ task EXCEPT ![t].pc = "done" ]
  /\ UNCHANGED << nops, otherVars >>

\* the caller takes the value returned
Complete(t) ==
  /\ task[t].pc = "done"
  /\ task' = [ task EXCEPT ![t] = Resting ]
  /\ UNCHANGED << queueFile, nops, otherVars >>

\* the process dies and is started again: its tasks are gone, the file is
\* what was on disk
Crash ==
  /\ \E t \in QTasks : task[t].pc # "idle"
  /\ task' = [ t \in QTasks |-> Resting ]
  /\ UNCHANGED << queueFile, nops, otherVars >>

NextQueue ==
  \/ \E t \in QTasks, op \in Mutations \cup { NextOp } : Call(t, op)
  \/ \E t \in QTasks : ReadStep(t)
  \/ \E t \in QTasks : WriteOpen(t)
  \/ \E t \in QTasks : WriteClose(t)
  \/ \E t \in QTasks : Complete(t)
  \/ Crash

\* the deployment plays no part in the queue store
DirectOnly ==
  { [ sequence |-> << 1 >>, connections |-> << DirectConn >>, healthy |-> {} ] }

InitQueue == InitCoreIn(DirectOnly) /\ InitStore(stringify(<< >>), OneProcess)

SpecQueue == InitQueue /\ [][NextQueue]_vars

(***************************************************************************)
(* getNextProcessableProfile over the queues a start may find on disk      *)
(***************************************************************************)

\* the longest queue found at start
MaxStored == 3

\* check maps: all checks in one status, and one with a check set
AllChecks(status) == [ n \in CheckNames |-> status ]
Except(checks, checkName, status) == [ checks EXCEPT ![checkName] = status ]

\* the states of progress a stored profile may be in
Progress ==
  { AllChecks("to_check"),
    AllChecks("passed"),
    Except(AllChecks("passed"), "friends", "failed"),
    Except(AllChecks("passed"), "friends", "deferred"),
    Except(Except(AllChecks("passed"), "friends", "deferred"), "csgo_inventory", "to_check"),
    Except(AllChecks("passed"), "steam_level", "to_check") }

StoredIds == << "id1", "id2", "id3" >>

\* the queues of at most MaxStored profiles, in the order of StoredIds
StoredQueues ==
  UNION { { [ i \in 1..k |-> [ steam_id |-> StoredIds[i], username |-> "alice",
                               checks |-> c[i] ] ] :
              c \in [ 1..k -> Progress ] } :
          k \in 0..Min({ MaxStored, Len(StoredIds) }) }

NextNext ==
  \/ \E t \in QTasks : Call(t, NextOp)
  \/ \E t \in QTasks : ReadStep(t)
  \/ \E t \in QTasks : Complete(t)

InitNext ==
  /\ InitCoreIn(DirectOnly)
  /\ \E q \in StoredQueues : InitStore(stringify(q), OneProcess)

SpecNext == InitNext /\ [][NextNext]_vars

(***************************************************************************)
(* QueueFileManager.withFileLock around an operation, as steps between its *)
(* awaits.  What the operation does to the queue file is left out here.    *)
(***************************************************************************)

maxRetries == 3
lockTimeout == 300000

\* lock attempts of one acquireLock (20 in the source) and process crashes
\* of one behaviour
maxLockAttempts == 2
MaxCrashes == 1

\* how an operation may end: its value, or an error of a kind the catch
\* block of withFileLock tells apart
OperationOutcomes == { "ok", "corruption", "filesystem", "other" }

\* what the lock view leaves alone
restVars == << healthy, backoffSequence, config, cooldowns, backoffLevels,
               currentProxyIndex, lastApiCallTime, pc, req, result,
               ncalls, marks, resetCells, paceVars, storeVars, regVars,
               schedVars >>

\* the catch block of withFileLock on an error of the kind: back to the
\* loop head for the next attempt, or the throw
Catch(t, kind) ==
  LET attempts == worker[t].attempts IN
  IF kind \in { "corruption", "filesystem", "lock" } /\ attempts <= maxRetries
    THEN worker' = [ worker EXCEPT ![t].pc = "check", ![t].attempts = attempts + 1,
                                   ![t].lockAttempts = 0, ![t].outcome = "none" ]
  ELSE IF attempts > maxRetries
    THEN worker' = [ worker EXCEPT ![t].pc = "done", ![t].outcome = "error" ]
  ELSE worker' = [ worker EXCEPT ![t].pc = "check", ![t].attempts = attempts + 1,
                                 ![t].lockAttempts = 0, ![t].outcome = "none" ]

\* acquireLock finds the lock taken: attempts++ and the next round after
\* the delay, or the throw after the last round
LockBusy(t) ==
  IF worker[t].lockAttempts + 1 < maxLockAttempts
    THEN worker' = [ worker EXCEPT ![t].pc = "check",
                                   ![t].lockAttempts = @ + 1 ]
    ELSE Catch(t, "lock")

\* withFileLock is called: first attempt, acquireLock asks pathExists
Begin(t) ==
  /\ worker[t].pc = "idle"
  /\ worker' = [ worker EXCEPT ![t].pc = "check", ![t].attempts = 1,
                               ![t].lockAttempts = 0, ![t].outcome = "none",
                               ![t].removedStale = FALSE ]
  /\ UNCHANGED << lockFile, ncrash, restVars >>

\* acquireLock: pathExists(lockFilePath) resolves
LockCheck(t) ==
  /\ worker[t].pc = "check"
  /\ worker' = [ worker EXCEPT ![t].pc =
                   IF lockFile # NoLock THEN "stale" ELSE "create" ]
  /\ UNCHANGED << lockFile, ncrash, restVars >>

\* a staleness test that never goes by the age of the lock
isLockStaleUnreadable(file) == file = NoLock

\* isLockStale: a lock file that cannot be read counts as stale
isLockStale(file) == file = NoLock \/ file.age > lockTimeout

\* acquireLock: isLockStale resolves
LockStale(t) ==
  /\ worker[t].pc = "stale"
  /\ IF isLockStale(lockFile)
       THEN worker' = [ worker EXCEPT ![t].pc = "remove" ]
       ELSE LockBusy(t)
  /\ UNCHANGED << lockFile, ncrash, restVars >>

\* acquireLock: fs.remove(lockFilePath) of the lock judged stale
LockRemove(t) ==
  /\ worker[t].pc = "remove"
  /\ lockFile' = NoLock
  /\ worker' = [ worker EXCEPT ![t].pc = "create",
                               ![t].removedStale =
                                 lockFile # NoLock /\ lockFile.age > lockTimeout ]
  /\ UNCHANGED << ncrash, restVars >>

\* acquireLock: writeFile with flag wx creates the lock, or fails EEXIST
LockCreate(t) ==
  /\ worker[t].pc = "create"
  /\ IF lockFile = NoLock
       THEN /\ lockFile' = [ processId |-> worker[t].processId, by |-> t, age |-> 0 ]
            /\ worker' = [ worker EXCEPT ![t].pc = "operation" ]
       ELSE /\ LockBusy(t)
            /\ UNCHANGED lockFile
  /\ UNCHANGED << ncrash, restVars >>

\* the operation returns or throws; the finally block starts releaseLock
Operate(t, outcome) ==
  /\ worker[t].pc = "operation"
  /\ worker' = [ worker EXCEPT ![t].pc = "release", ![t].outcome = outcome ]
  /\ UNCHANGED << lockFile, ncrash, restVars >>

\* after releaseLock: the return of the value, or the catch block
Leave(t) ==
  IF worker[t].outcome = "ok"
    THEN worker' = [ worker EXCEPT ![t].pc = "done" ]
    ELSE Catch(t, worker[t].outcome)

\* releaseLock: pathExists resolves
ReleaseCheck(t) ==
  /\ worker[t].pc = "release"
  /\ IF lockFile # NoLock
       THEN worker' = [ worker EXCEPT ![t].pc = "owner" ]
       ELSE Leave(t)
  /\ UNCHANGED << lockFile, ncrash, restVars >>

\* releaseLock: readJson resolves and the processId is compared
ReleaseOwner(t) ==
  /\ worker[t].pc = "owner"
  /\ IF lockFile # NoLock /\ lockFile.processId = worker[t].processId
       THEN worker' = [ worker EXCEPT ![t].pc = "unlink" ]
       ELSE Leave(t)
  /\ UNCHANGED << lockFile, ncrash, restVars >>

\* releaseLock: fs.remove(lockFilePath)
ReleaseRemove(t) ==
  /\ worker[t].pc = "unlink"
  /\ lockFile' = NoLock
  /\ Leave(t)
  /\ UNCHANGED << ncrash, restVars >>

\* the caller takes the value or the error
Done(t) ==
  /\ worker[t].pc = "done"
  /\ worker' = [ worker EXCEPT ![t] = Off(worker[t].processId) ]
  /\ UNCHANGED << lockFile, ncrash, restVars >>

\* the process processId is killed and started again under a new pid: its
\* tasks are gone, the lock file stays
CrashProcess(processId) ==
  /\ ncrash < MaxCrashes
  /\ \E t \in QTasks : worker[t].processId = processId /\ worker[t].pc # "idle"
  /\ ncrash' = ncrash + 1
  /\ worker' = [ t \in QTasks |->
                   IF worker[t].processId = processId
                     THEN Off(processId + Cardinality(QTasks))
                     ELSE worker[t] ]
  /\ UNCHANGED << lockFile, restVars >>

\* lockTimeout passes.  A call, with its waits, is over long before: time
\* is let pass between calls
LockTick ==
  /\ lockFile # NoLock
  /\ lockFile.age <= lockTimeout
  /\ \A t \in QTasks : worker[t].pc = "idle"
  /\ lockFile' = [ lockFile EXCEPT !.age = @ + lockTimeout ]
  /\ UNCHANGED << worker, ncrash, restVars >>

NextLock ==
  \/ \E t \in QTasks : Begin(t)
  \/ \E t \in QTasks : LockCheck(t)
  \/ \E t \in QTasks : LockStale(t)
  \/ \E t \in QTasks : LockRemove(t)
  \/ \E t \in QTasks : LockCreate(t)
  \/ \E t \in QTasks, outcome \in OperationOutcomes : Operate(t, outcome)
  \/ \E t \in QTasks : ReleaseCheck(t)
  \/ \E t \in QTasks : ReleaseOwner(t)
  \/ \E t \in QTasks : ReleaseRemove(t)
  \/ \E t \in QTasks : Done(t)
  \/ \E processId \in 1..2 : CrashProcess(processId)
  \/ LockTick

InitLock ==
  /\ InitCoreIn(DirectOnly)
  /\ \E pids \in { OneProcess, TwoProcesses } : InitStore(stringify(<< >>), pids)

SpecLock == InitLock /\ [][NextLock]_vars

\* the loops of index.js call the store again and again, and the event loop
\* runs every continuation that is ready: some step is always taken
SpecLockLive == SpecLock /\ WF_vars(NextLock)

(***************************************************************************)
(* The connection registry: the load of config_proxies.json and the        *)
(* operations that add and remove a proxy, with selections and cooldown    *)
(* marks in between so that the cursor moves and the rows carry records.   *)
(***************************************************************************)

\* what may be found at config_proxies.json: no file (or text that does not
\* parse), a connections field that is no array, and connection lists
NoConfigFile == [ exists |-> FALSE, isArray |-> FALSE, connections |-> << >> ]
ConfigFile(connections) ==
  [ exists |-> TRUE, isArray |-> TRUE, connections |-> connections ]

ConfigFiles ==
  { NoConfigFile,
    [ exists |-> TRUE, isArray |-> FALSE, connections |-> << >> ],
    ConfigFile(<< DirectConn, Socks("socks5://p1"), Socks("socks5://p2") >>),
    ConfigFile(<< Socks("socks5://p1"), Socks("socks5://p2") >>),
    ConfigFile(<< Socks("socks5://p1"), DirectConn >>),
    ConfigFile(<< DirectConn, Socks("socks5://p1"), DirectConn >>) }

\* the urls the operations are called with
ProxyInputs == { "socks5://p1", "socks5://p2", "http://bad" }

\* the rows a cooldown mark is aimed at: the longest connection list of
\* this view has four entries
MaxRows == 4

\* the endpoint classes and the error types of the marks in this view
MarkedEndpoints == { "friends" }
MarkedErrors == { "429", "timeout" }

\* ensureConfigStructure: the connections it leaves in this.config
ensureConfigStructure(file) ==
  LET connections == IF file.isArray THEN file.connections ELSE << >>
      directConnectionExists ==
        \E i \in 1..Len(connections) : connections[i].type = "direct"
  IN IF ~directConnectionExists THEN << DirectConn >> \o connections
     ELSE connections

\* initializeConfig
initializeConfig(file) ==
  IF file.exists THEN ensureConfigStructure(file) ELSE << DirectConn >>

\* conn => !(conn.type === 'socks5' && conn.url === proxyUrl)
OtherThan(proxyUrl, conn) == ~(conn.type = "socks5" /\ conn.url = proxyUrl)

\* this.cooldowns.connections.forEach((conn, index) => { conn.index = index })
reindex(cds) == [ i \in 1..Len(cds) |-> [ cds[i] EXCEPT !.index = i - 1 ] ]

\* what an operation of the registry leaves behind
Registry(cfg, cds, cursor, ret) ==
  [ config |-> cfg, cooldowns |-> cds, currentProxyIndex |-> cursor, ret |-> ret ]

\* addSocks5Proxy
addSocks5Proxy(st, cfg, proxyUrl) ==
  IF ~ValidSocksUrl(proxyUrl)
    THEN Registry(cfg, st.cooldowns, st.currentProxyIndex, FALSE)
  ELSE IF \E i \in 1..Len(cfg) : cfg[i].type = "socks5" /\ cfg[i].url = proxyUrl
    THEN Registry(cfg, st.cooldowns, st.currentProxyIndex, FALSE)
  ELSE Registry(Append(cfg, Socks(proxyUrl)),
                Append(st.cooldowns,
                       [ index |-> Len(cfg), type |-> "socks5", url |-> proxyUrl,
                         endpoint_cooldowns |-> EmptyCooldowns ]),
                st.currentProxyIndex, TRUE)

\* a removal that leaves the round-robin index where it was
removeSocks5ProxyKeepCursor(st, cfg, proxyUrl) ==
  LET connections == SelectSeq(cfg, LAMBDA conn : OtherThan(proxyUrl, conn))
      rows == reindex(SelectSeq(st.cooldowns, LAMBDA conn : OtherThan(proxyUrl, conn)))
  IN Registry(connections, rows, st.currentProxyIndex, Len(connections) < Len(cfg))

\* removeSocks5Proxy
removeSocks5Proxy(st, cfg, proxyUrl) ==
  LET connections == SelectSeq(cfg, LAMBDA conn : OtherThan(proxyUrl, conn))
      rows == reindex(SelectSeq(st.cooldowns, LAMBDA conn : OtherThan(proxyUrl, conn)))
  IN IF Len(connections) < Len(cfg)
       THEN Registry(connections, rows,
                     IF st.currentProxyIndex >= Len(getProxyConnections(connections))
                       THEN 0 ELSE st.currentProxyIndex,
                     TRUE)
       ELSE Registry(connections, rows, st.currentProxyIndex, FALSE)

\* what the registry view leaves alone
fixedVars == << healthy, backoffSequence, lastApiCallTime, pc, req, result,
                ncalls, marks, resetCells, paceVars, storeVars, lockVars,
                schedVars >>

\* a caller adds a proxy
AddProxy(proxyUrl) ==
  /\ \A after \in { addSocks5Proxy(PM, config, proxyUrl) } :
       /\ config' = after.config
       /\ cooldowns' = after.cooldowns
  /\ UNCHANGED << backoffLevels, currentProxyIndex, removedRows, fixedVars >>

\* a caller removes a proxy
RemoveProxy(proxyUrl) ==
  /\ \A after \in { removeSocks5Proxy(PM, config, proxyUrl) } :
       /\ config' = after.config
       /\ cooldowns' = after.cooldowns
       /\ currentProxyIndex' = after.currentProxyIndex
       /\ removedRows' =
            IF after.ret
              THEN SelectSeq(cooldowns, LAMBDA conn : ~OtherThan(proxyUrl, conn))
              ELSE removedRows
  /\ UNCHANGED << backoffLevels, fixedVars >>

\* a request selects its connection
SelectConnection(endpoint) ==
  /\ currentProxyIndex' =
       getBestConnectionForEndpoint(PM, config, now, endpoint).cursor
  /\ UNCHANGED << config, cooldowns, backoffLevels, removedRows, fixedVars >>

\* a failed request cools its cell down
MarkCell(connectionIndex, endpoint, errorType) ==
  /\ \A after \in { markConnectionCooldownForEndpoint(
                      PM, now, backoffSequence, connectionIndex, endpoint, errorType) } :
       /\ cooldowns' = after.cooldowns
       /\ backoffLevels' = after.backoffLevels
  /\ UNCHANGED << config, currentProxyIndex, removedRows, fixedVars >>

NextRegistry ==
  \/ \E proxyUrl \in ProxyInputs : AddProxy(proxyUrl)
  \/ \E proxyUrl \in ProxyInputs : RemoveProxy(proxyUrl)
  \/ \E endpoint \in MarkedEndpoints : SelectConnection(endpoint)
  \/ \E connectionIndex \in 0..(MaxRows - 1), endpoint \in MarkedEndpoints,
        errorType \in MarkedErrors :
       MarkCell(connectionIndex, endpoint, errorType)

\* the process after the load of one of the configuration files
LoadedFrom(files) ==
  { [ sequence |-> << 1, 2 >>, connections |-> initializeConfig(file),
      healthy |-> {} ] : file \in files }

InitRegistry ==
  InitCoreIn(LoadedFrom(ConfigFiles)) /\ InitStore(stringify(<< >>), OneProcess)

SpecRegistry == InitRegistry /\ [][NextRegistry]_vars

(***************************************************************************)
(* The scheduler: processQueuedProfiles (the main loop), checkProxyStatus  *)
(* (the status loop) and processDeferredChecks, which both of them run.    *)
(* A step runs a loop from one await to the next.  The Validator is seen   *)
(* through the result it hands back: a call is answered at once when its   *)
(* endpoint class has every connection in cooldown, and is dispatched      *)
(* upstream otherwise.  A queue operation takes effect in one step.        *)
(***************************************************************************)

\* the checks in the order addProfileToQueue declares them
checkOrder ==
  << "animated_avatar", "avatar_frame", "mini_profile_background",
     "profile_background", "steam_level", "friends", "csgo_inventory" >>

\* Helper method to map check type to endpoint name
mapCheckTypeToEndpoint(checkType) ==
  IF checkType = "csgo_inventory" THEN "inventory" ELSE checkType

\* the elements of a sequence
Range(seq) == { seq[i] : i \in 1..Len(seq) }

\* this.deferredChecks: the entries of the Map in insertion order, each with
\* the elements of its Set in insertion order
entryIndex(map, steamId) ==
  FirstOf({ i \in 1..Len(map) : map[i].steamId = steamId })

checksOf(map, steamId) ==
  IF entryIndex(map, steamId) = 0 THEN << >> ELSE map[entryIndex(map, steamId)].checks

\* Helper method to add checks to deferred list
addToDeferredChecks(map, steamId, checkType) ==
  LET i == entryIndex(map, steamId) IN
  IF i = 0 THEN Append(map, [ steamId |-> steamId, checks |-> << checkType >> ])
  ELSE IF checkType \in Range(map[i].checks) THEN map
  ELSE [ map EXCEPT ![i].checks = Append(@, checkType) ]

\* Clear a specific deferred check
clearDeferredCheck(map, steamId, checkType) ==
  LET i == entryIndex(map, steamId) IN
  IF i = 0 THEN map
  ELSE LET checks == SelectSeq(map[i].checks, LAMBDA c : c # checkType) IN
       IF checks = << >>
         THEN SelectSeq(map, LAMBDA entry : entry.steamId # steamId)
         ELSE [ map EXCEPT ![i].checks = checks ]

\* Object.entries(profile.checks) filtered on a status: the names that have
\* it, in declaration order
namesWith(profile, status) ==
  SelectSeq(checkOrder, LAMBDA n : n \in DOMAIN profile.checks
                                   /\ profile.checks[n] = status)

\* this.deferredChecks.set(steamId, new Set(deferredChecks))
setEntry(map, steamId, checks) ==
  LET i == entryIndex(map, steamId) IN
  IF i = 0 THEN Append(map, [ steamId |-> steamId, checks |-> checks ])
  ELSE [ map EXCEPT ![i].checks = checks ]

\* the for loop of the startup timer over the profiles of the file
RECURSIVE loadDeferred(_, _)
loadDeferred(map, profiles) ==
  IF profiles = << >> THEN map
  ELSE LET profile == Head(profiles)
           deferred == namesWith(profile, "deferred")
       IN loadDeferred(
            IF deferred # << >> THEN setEntry(map, profile.steam_id, deferred) ELSE map,
            Tail(profiles))

\* the timer callback of initializeDeferredChecksFromQueue: a file that does
\* not parse throws and leaves the map as it is
initializeDeferredChecksFromQueue(map, file) ==
  IF ~file.parses THEN map ELSE loadDeferred(map, file.profiles)

\* what a check method returns
CheckResult(success, passed, deferred, private) ==
  [ success |-> success, passed |-> passed, deferred |-> deferred,
    private |-> private ]

\* what the Validator meets on a call: the upstream answers with a body that
\* passes, with one that fails, with the empty GetSteamLevel response, with
\* an error that is no cooldown case, or with the error that puts the last
\* available connection of the class in cooldown
UpstreamAnswers == { "pass", "fail", "empty", "error", "cooldown" }

AnswersFor(checkName) ==
  IF checkName = "steam_level" THEN UpstreamAnswers
  ELSE UpstreamAnswers \ { "empty" }

\* the result of a check method on the answer
checkResult(answer) ==
  CASE answer = "pass"     -> CheckResult(TRUE, TRUE, FALSE, FALSE)
    [] answer = "fail"     -> CheckResult(TRUE, FALSE, FALSE, FALSE)
    [] answer = "empty"    -> CheckResult(TRUE, TRUE, FALSE, TRUE)
    [] answer = "error"    -> CheckResult(FALSE, FALSE, FALSE, FALSE)
    [] answer = "cooldown" -> CheckResult(FALSE, FALSE, TRUE, FALSE)

\* the position of a loop inside a cycle
At(at, kind, steamId, checkName, entries, types, checksToRun, isPrivateProfile, op) ==
  [ pc |-> at, kind |-> kind, steamId |-> steamId, checkName |-> checkName,
    entries |-> entries, types |-> types, checksToRun |-> checksToRun,
    isPrivateProfile |-> isPrivateProfile, op |-> op ]

\* no queue operation under way
NoOp == [ kind |-> "none" ]

\* processDeferredChecks has returned: the main loop goes on to the queue,
\* the status loop sets its timer
Returned(l) ==
  IF l = "main" THEN At("pick", "pass", "", "", << >>, << >>, << >>, FALSE, NoOp)
  ELSE Waiting

\* processDeferredChecks from the entry entries[1] on, with the check types
\* left of that entry once they are loaded: on to the first check whose
\* endpoint class has a connection available, which is dispatched
RECURSIVE reactivate(_, _, _, _, _, _)
reactivate(l, map, cold, entries, types, loaded) ==
  IF entries = << >> THEN Returned(l)
  ELSE IF ~loaded
    THEN reactivate(l, map, cold, entries, checksOf(map, Head(entries)), TRUE)
  ELSE IF types = << >>
    THEN reactivate(l, map, cold, Tail(entries), << >>, FALSE)
  ELSE IF mapCheckTypeToEndpoint(Head(types)) \in cold
    THEN reactivate(l, map, cold, entries, Tail(types), TRUE)
  ELSE At("inflight", "react", Head(entries), Head(types), entries, Tail(types),
          << >>, FALSE, NoOp)

\* friends and csgo_inventory: the checks a private profile is spared
isRateLimitedCheck(checkName) == checkName \in { "friends", "csgo_inventory" }

\* the for loop of processQueuedProfiles from checksToRun[1] on, up to its
\* next await: the queue update of an auto-passed check, the queue update
\* of a check deferred without a dispatch (its class has every connection
\* in cooldown), or the upstream call of the check
runChecks(map, cold, steamId, checksToRun, isPrivateProfile) ==
  IF checksToRun = << >> THEN [ loop |-> Waiting, map |-> map ]
  ELSE LET checkName == Head(checksToRun) IN
    IF isPrivateProfile /\ isRateLimitedCheck(checkName)
      THEN [ loop |-> At("write", "pass", steamId, checkName, << >>, << >>,
                         checksToRun, isPrivateProfile,
                         UpdateOp(steamId, checkName, "passed")),
             map |-> map ]
    ELSE IF mapCheckTypeToEndpoint(checkName) \in cold
      THEN [ loop |-> At("write", "pass", steamId, checkName, << >>, << >>,
                         checksToRun, isPrivateProfile,
                         UpdateOp(steamId, checkName, "deferred")),
             map |-> addToDeferredChecks(map, steamId, checkName) ]
    ELSE [ loop |-> At("inflight", "pass", steamId, checkName, << >>, << >>,
                       checksToRun, isPrivateProfile, NoOp),
           map |-> map ]

\* a main loop that leaves the profile at the first check it cannot settle
stopsPassUnlessPassed(checkResult_) == ~(checkResult_.success /\ checkResult_.passed)

\* processQueuedProfiles, 'Handle check result': the pass over the profile
\* ends (break) on a failed validation only
stopsPass(checkResult_) == checkResult_.success /\ ~checkResult_.passed

\* processQueuedProfiles, 'Handle check result': the queue operation
handleCheckResult(steamId, checkName, checkResult_) ==
  IF ~checkResult_.success THEN UpdateOp(steamId, checkName, "deferred")
  ELSE IF ~checkResult_.passed THEN RemoveOp(steamId)
  ELSE UpdateOp(steamId, checkName, "passed")

\* processDeferredChecks on the result of a re-run check: the queue update,
\* none when the check is deferred again
handleDeferredResult(steamId, checkType, checkResult_) ==
  IF checkResult_.success
    THEN UpdateOp(steamId, checkType, IF checkResult_.passed THEN "passed" ELSE "failed")
  ELSE IF checkResult_.deferred THEN NoOp
  ELSE UpdateOp(steamId, checkType, "deferred")

\* getAllChecksComplete on the array read
getAllChecksComplete(profiles, steamId) ==
  LET i == findIndex(profiles, steamId) IN
  IF i = 0 THEN [ allComplete |-> FALSE, allPassed |-> FALSE ]
  ELSE [ allComplete |-> \A n \in DOMAIN profiles[i].checks :
                           profiles[i].checks[n] \in { "passed", "failed" },
         allPassed |-> \A n \in DOMAIN profiles[i].checks :
                         profiles[i].checks[n] = "passed" ]

\* what the ingest API does with a submission: a 2xx answer, an error
\* answer with its status and the error field of its body (Absent when the
\* body has none), or no answer at all
Accepted(status) == [ kind |-> "response", status |-> status, error |-> "" ]
Refused(status, error) == [ kind |-> "error", status |-> status, error |-> error ]
Unanswered == [ kind |-> "none", status |-> Absent, error |-> "" ]

DownstreamAnswers ==
  { Accepted(200), Accepted(201),
    Refused(400, "Link already exists"),
    Refused(400, "Invalid Steam ID format"),
    Refused(500, "Internal server error"),
    Refused(502, ""),
    Refused(503, "Service temporarily unavailable"),
    Unanswered }

\* errorData.error || error.message: axios names the status in its message
errorMessageOf(answer) ==
  IF answer.error # "" THEN answer.error ELSE "Request failed with status code"

\* String.prototype.includes on the messages of this view, none of which
\* holds a needle but the one that is the needle
includes(message, needle) == message = needle

\* sendSteamIdToApi: axios resolves on 2xx and rejects on the rest
sendSteamIdToApi(answer) ==
  IF answer.kind = "response"
    THEN IF answer.status = 200
           THEN [ success |-> TRUE, status |-> Absent, error |-> "" ]
           ELSE [ success |-> FALSE, status |-> Absent, error |-> "Unexpected status code" ]
  ELSE IF answer.kind = "error"
    THEN [ success |-> FALSE, status |-> answer.status, error |-> errorMessageOf(answer) ]
  ELSE [ success |-> FALSE, status |-> Absent, error |-> "No response from server" ]

\* handleNewSteamId: its result object has no status field
handleNewSteamId(answer) ==
  LET apiResponse == sendSteamIdToApi(answer) IN
  IF apiResponse.success THEN [ success |-> TRUE, status |-> Absent, error |-> "" ]
  ELSE [ success |-> includes(apiResponse.error, "Link already exists"),
         status |-> Absent, error |-> apiResponse.error ]

\* processQueuedProfiles: isRetryableError (an absent status compares false)
isRetryableError(apiResult) ==
  \/ includes(apiResult.error, "Internal server error")
  \/ includes(apiResult.error, "No response from server")
  \/ includes(apiResult.error, "Request setup error")
  \/ includes(apiResult.error, "Service temporarily unavailable")
  \/ (apiResult.status >= 500 /\ apiResult.status < 600)

\* a queue operation of the scheduler on the file
Stored(op, file) ==
  LET out == Apply(op, readQueueProfilesInternal(file)) IN
  IF out.save THEN stringify(out.profiles) ELSE file

\* what the scheduler view leaves alone
idleVars == << healthy, backoffSequence, config, cooldowns, backoffLevels,
               currentProxyIndex, lastApiCallTime, pc, req, result,
               ncalls, marks, resetCells, paceVars, task, nops, lockFile,
               worker, regVars >>

\* the flag is left as it is on every exit path of processQueuedProfiles
processingKept(flag, position) == flag

\* the flag after a step of processQueuedProfiles that takes it to the given
\* position: cleared where the function returns (no processable profile,
\* the end of the completion branch, the finally block), kept at an await
processingAfter(flag, position) == IF position.pc = "idle" THEN FALSE ELSE flag

\* processQueue fires: processQueuedProfiles returns at once when the flag
\* is set, and else sets it and starts with the deferred checks
MainBegin ==
  /\ loop["main"].pc = "idle"
  /\ IF isProcessing
       THEN UNCHANGED << loop, isProcessing >>
       ELSE /\ loop' = [ loop EXCEPT !["main"] =
                 reactivate("main", deferredChecks, cooled,
                            [ i \in 1..Len(deferredChecks) |-> deferredChecks[i].steamId ],
                            << >>, FALSE) ]
            /\ isProcessing' = processingAfter(TRUE, loop'["main"])
  /\ UNCHANGED << queueFile, ncrash, deferredChecks, cooled, startup, flagged,
                  downstream, idleVars >>

\* checkProxyStatus fires and finds deferred checks in the map
StatusBegin ==
  /\ loop["status"].pc = "idle"
  /\ deferredChecks # << >>
  /\ loop' = [ loop EXCEPT !["status"] =
       reactivate("status", deferredChecks, cooled,
                  [ i \in 1..Len(deferredChecks) |-> deferredChecks[i].steamId ],
                  << >>, FALSE) ]
  /\ UNCHANGED << queueFile, ncrash, deferredChecks, cooled, startup, flagged,
                  downstream, isProcessing, idleVars >>

\* the call of a check method returns on the answer of the upstream
Answer(l, answer) ==
  /\ loop[l].pc = "inflight"
  /\ answer \in AnswersFor(loop[l].checkName)
  /\ LET at == loop[l]
         res == checkResult(answer)
     IN /\ cooled' = IF answer = "cooldown"
                       THEN cooled \cup { mapCheckTypeToEndpoint(at.checkName) }
                       ELSE cooled
        /\ deferredChecks' = IF res.deferred
                               THEN addToDeferredChecks(deferredChecks, at.steamId, at.checkName)
                               ELSE deferredChecks
        /\ flagged' = IF res.private THEN flagged \cup { at.steamId } ELSE flagged
        /\ loop' = [ loop EXCEPT ![l] =
             IF at.kind = "react"
               THEN IF handleDeferredResult(at.steamId, at.checkName, res) = NoOp
                      THEN Returned(l)
                      ELSE [ at EXCEPT !.pc = "write",
                               !.op = handleDeferredResult(at.steamId, at.checkName, res) ]
               ELSE [ at EXCEPT !.pc = "write",
                        !.op = handleCheckResult(at.steamId, at.checkName, res),
                        !.isPrivateProfile = at.isPrivateProfile \/
                           (at.checkName = "steam_level" /\ res.success /\ res.private),
                        !.checksToRun = IF stopsPass(res) THEN << at.checkName >>
                                        ELSE at.checksToRun ] ]
  /\ isProcessing' = IF l = "main" THEN processingAfter(isProcessing, loop'["main"])
                     ELSE isProcessing
  /\ UNCHANGED << queueFile, ncrash, startup, downstream, idleVars >>

\* the queue operation a loop awaits takes effect, and the loop runs on to
\* its next await
Write(l) ==
  /\ loop[l].pc = "write"
  /\ queueFile' = Stored(loop[l].op, queueFile)
  /\ LET at == loop[l] IN
     IF at.kind = "react"
       THEN /\ deferredChecks' = clearDeferredCheck(deferredChecks, at.steamId, at.checkName)
            /\ loop' = [ loop EXCEPT ![l] =
                 reactivate(l, deferredChecks', cooled, at.entries, at.types, TRUE) ]
       ELSE \A next \in { runChecks(deferredChecks, cooled, at.steamId,
                                    Tail(at.checksToRun), at.isPrivateProfile) } :
              /\ deferredChecks' = next.map
              /\ loop' = [ loop EXCEPT ![l] = next.loop ]
  /\ downstream' = IF l = "main" THEN NoResult ELSE downstream
  /\ isProcessing' = IF l = "main" THEN processingAfter(isProcessing, loop'["main"])
                     ELSE isProcessing
  /\ UNCHANGED << ncrash, cooled, startup, flagged, idleVars >>

\* processQueuedProfiles takes the next processable profile and starts on
\* its to_check checks, or goes to look at its completion
Pick ==
  /\ loop["main"].pc = "pick"
  /\ LET found == getNextProcessableProfile(readQueueProfilesInternal(queueFile)) IN
     IF found = Null
       THEN /\ loop' = [ loop EXCEPT !["main"] = Waiting ]
            /\ UNCHANGED deferredChecks
     ELSE IF namesWith(found.profile, "to_check") = << >>
       THEN /\ loop' = [ loop EXCEPT !["main"] =
                 At("complete", "pass", found.profile.steam_id, "", << >>, << >>,
                    << >>, FALSE, NoOp) ]
            /\ UNCHANGED deferredChecks
     ELSE \A next \in { runChecks(deferredChecks, cooled, found.profile.steam_id,
                                  namesWith(found.profile, "to_check"), FALSE) } :
            /\ deferredChecks' = next.map
            /\ loop' = [ loop EXCEPT !["main"] = next.loop ]
  /\ isProcessing' = processingAfter(isProcessing, loop'["main"])
  /\ UNCHANGED << queueFile, ncrash, cooled, startup, flagged, downstream, idleVars >>

\* processQueuedProfiles on a profile with nothing to check: submit it when
\* every check passed, remove it when every check is settled and one
\* failed, leave it when a check is deferred
CheckCompletion ==
  /\ loop["main"].pc = "complete"
  /\ LET at == loop["main"]
         completionStatus ==
           getAllChecksComplete(readQueueProfilesInternal(queueFile), at.steamId)
     IN loop' = [ loop EXCEPT !["main"] =
          IF completionStatus.allComplete /\ completionStatus.allPassed
            THEN [ at EXCEPT !.pc = "submit" ]
          ELSE IF completionStatus.allComplete
            THEN [ at EXCEPT !.pc = "write", !.checksToRun = << "" >>,
                             !.op = RemoveOp(at.steamId) ]
          ELSE Waiting ]
  /\ isProcessing' = processingAfter(isProcessing, loop'["main"])
  /\ UNCHANGED << queueFile, ncrash, deferredChecks, cooled, startup, flagged,
                  downstream, idleVars >>

\* the ingest API answers the submission
SubmitAnswer(answer) ==
  /\ loop["main"].pc = "submit"
  /\ LET at == loop["main"]
         apiResult == handleNewSteamId(answer)
     IN IF apiResult.success \/ ~isRetryableError(apiResult)
          THEN /\ downstream' = answer
               /\ loop' = [ loop EXCEPT !["main"] =
                    [ at EXCEPT !.pc = "write", !.checksToRun = << "" >>,
                                !.op = RemoveOp(at.steamId) ] ]
          ELSE /\ downstream' = NoResult
               /\ loop' = [ loop EXCEPT !["main"] = Waiting ]
  /\ isProcessing' = processingAfter(isProcessing, loop'["main"])
  /\ UNCHANGED << queueFile, ncrash, deferredChecks, cooled, startup, flagged,
                  idleVars >>

\* an exception inside the try block of processQueuedProfiles (a stored
\* profile without a checks object makes Object.values throw): the catch
\* block logs it and the finally block ends the body
Throw ==
  /\ loop["main"].pc \in { "pick", "complete" }
  /\ loop' = [ loop EXCEPT !["main"] = Waiting ]
  /\ isProcessing' = processingAfter(isProcessing, loop'["main"])
  /\ UNCHANGED << queueFile, ncrash, deferredChecks, cooled, startup, flagged,
                  downstream, idleVars >>

\* the cooldowns of an endpoint class run out on one connection
Expire(endpoint) ==
  /\ endpoint \in cooled
  /\ cooled' = cooled \ { endpoint }
  /\ UNCHANGED << queueFile, ncrash, deferredChecks, loop, startup, flagged,
                  downstream, isProcessing, idleVars >>

\* the timer of initializeDeferredChecksFromQueue fires, a second after the
\* constructor
StartupTimer ==
  /\ startup = "pending"
  /\ startup' = "done"
  /\ deferredChecks' = initializeDeferredChecksFromQueue(deferredChecks, queueFile)
  /\ UNCHANGED << queueFile, ncrash, loop, cooled, flagged, downstream,
                  isProcessing, idleVars >>

\* the process is stopped and started again: the map and the loops start
\* afresh, the queue file and the cooldown file stay
Reboot ==
  /\ ncrash < MaxCrashes
  /\ ncrash' = ncrash + 1
  /\ deferredChecks' = << >>
  /\ loop' = [ l \in Loops |-> Waiting ]
  /\ startup' = "pending"
  /\ downstream' = NoResult
  /\ isProcessing' = FALSE
  /\ UNCHANGED << queueFile, cooled, flagged, idleVars >>

\* the running scheduler
NextRun ==
  \/ MainBegin
  \/ StatusBegin
  \/ \E l \in Loops, answer \in UpstreamAnswers : Answer(l, answer)
  \/ \E l \in Loops : Write(l)
  \/ Pick
  \/ CheckCompletion
  \/ \E answer \in DownstreamAnswers : SubmitAnswer(answer)
  \/ Throw
  \/ \E endpoint \in Endpoints \cup { "steam_level" } : Expire(endpoint)
  \/ StartupTimer

NextSched == NextRun \/ Reboot

\* a stored profile with the four cosmetic checks passed and the given
\* statuses of steam_level, friends and csgo_inventory
StoredProfile(steamId, level, friends, inventory) ==
  [ steam_id |-> steamId, username |-> "alice",
    checks |-> [ n \in CheckNames |->
      CASE n = "steam_level" -> level
        [] n = "friends" -> friends
        [] n = "csgo_inventory" -> inventory
        [] OTHER -> "passed" ] ]

\* the queue files the process is started over
StartQueues ==
  { << StoredProfile("id1", "to_check", "to_check", "passed") >>,
    << StoredProfile("id1", "deferred", "to_check", "passed") >>,
    << StoredProfile("id1", "passed", "passed", "passed") >>,
    << StoredProfile("id1", "passed", "deferred", "passed"),
       StoredProfile("id2", "passed", "passed", "to_check") >> }

InitSched ==
  /\ InitCoreIn(DirectOnly)
  /\ \E profiles \in StartQueues : InitFiles(stringify(profiles), OneProcess)
  /\ InitScheduler({}, "pending")

SpecSched == InitSched /\ [][NextSched]_vars

\* the scheduler without a restart, under fair scheduling: the timers of
\* both loops fire again and again, every awaited call returns, every
\* awaited queue operation completes, and cooldowns run out
FairRun ==
  /\ WF_vars(MainBegin)
  /\ WF_vars(StatusBegin)
  /\ \A l \in Loops : WF_vars(\E answer \in UpstreamAnswers : Answer(l, answer))
  /\ \A l \in Loops : WF_vars(Write(l))
  /\ WF_vars(Pick)
  /\ WF_vars(CheckCompletion)
  /\ WF_vars(\E answer \in DownstreamAnswers : SubmitAnswer(answer))
  /\ \A endpoint \in Endpoints \cup { "steam_level" } : WF_vars(Expire(endpoint))
  /\ WF_vars(StartupTimer)

SpecSchedLive == InitSched /\ [][NextRun]_vars /\ FairRun

(***************************************************************************)
(* Properties                                                              *)
(***************************************************************************)

\* BackoffLevel[c,e], Absent when the map holds no entry
LevelOf(cell) == IF cell \in DOMAIN backoffLevels THEN backoffLevels[cell] ELSE Absent

\* the cooldown record of a cell
RecordOf(cell) == cooldowns[cell[1] + 1].endpoint_cooldowns[cell[2]]

Is429(rec) == rec # NoRec /\ rec.reason = "429"

\* length of a cooldown in milliseconds
DurationMs(rec) == rec.cooldown_until - rec.applied_at

\* this step applies a 429 mark to the cell
Marked(cell) == marks'[cell] = marks[cell] + 1

\* the cell a request of p in flight is using
CellOf(p) == Key(req[p].index, getEndpointName(req[p].url))

\* this step is the success path of the call of p
Succeeded(p) == pc[p] = "inflight" /\ pc'[p] = "done" /\ result'[p].kind = "ok"

\* C1: starting from a cell with no backoff level, after k >= 1 successive
\* 429 marks (no success in between) the level of the cell is
\* min(k-1, len-1) and the k-th cooldown lasts sequence[min(k-1, len-1)]
\* minutes.
C1_KthMarkLevelAndDuration ==
  \A cell \in Cells :
    marks[cell] >= 1 =>
      LET expected == Min({ marks[cell] - 1, Len(backoffSequence) - 1 }) IN
      /\ LevelOf(cell) = expected
      /\ Is429(RecordOf(cell)) =>
           /\ RecordOf(cell).duration_minutes = backoffSequence[expected + 1]
           /\ DurationMs(RecordOf(cell)) = backoffSequence[expected + 1] * MsPerMinute

\* C2: a successful response on a cell after any number of 429s resets its
\* level to 0 (no entry), and the next 429 on that cell applies a cooldown
\* of sequence[0] minutes.
C2_ResetThenFirstElement ==
  [][ \A cell \in Cells :
        /\ (\E p \in Procs : Succeeded(p) /\ cell = CellOf(p)) =>
             LevelOf(cell)' \in { Absent, 0 }
        /\ (cell \in resetCells /\ Marked(cell)) =>
             /\ Is429(RecordOf(cell)')
             /\ RecordOf(cell)'.duration_minutes = backoffSequence[1]
             /\ DurationMs(RecordOf(cell)') = backoffSequence[1] * MsPerMinute ]_vars

C5_ResetFrame ==
  [][ \A p \in Procs :
        Succeeded(p) =>
          \A cell \in { CellOf(p) } :
            /\ LevelOf(cell)' = Absent
            /\ ~Is429(RecordOf(cell)')
            /\ ~Is429(RecordOf(cell)) => RecordOf(cell)' = RecordOf(cell)
            /\ \A other \in Cells \ { cell } :
                 /\ RecordOf(other)' = RecordOf(other)
                 /\ LevelOf(other)' = LevelOf(other) ]_vars

\* a success has just removed the level of a cell that had been marked 429
\* and still holds a record of another reason
C5_Witness ==
  \E p \in Procs :
    /\ pc[p] = "done"
    /\ result[p].kind = "ok"
    /\ LET cell == Key(req[p].attempts[Len(req[p].attempts)].index,
                       getEndpointName(req[p].url)) IN
       /\ cell \in resetCells
       /\ LevelOf(cell) = Absent
       /\ RecordOf(cell) # NoRec

\* the call of p is answered with r in this step
Answered(p, r) ==
  /\ pc[p] = "inflight"
  /\ pc'[p] \in { "done", "pacing" }
  /\ req'[p].attempts =
       Append(req[p].attempts, [ index |-> req[p].index, response |-> r ])

\* HTTP 429, a SOCKS error or a transport error
CoolingFailure(r) ==
  r \in { HttpError(429), NetError("Socks5 proxy rejected connection"),
          NetError("timeout of 15000ms exceeded") }

\* the cell is free of any running cooldown
Available(cell) == RecordOf(cell) = NoRec \/ RecordOf(cell).cooldown_until <= now

\* C6: when a call through connection c for class e fails with 429, a SOCKS
\* error or a transport error, the cooldown (for 429 with the level
\* increment) is applied to cell (c, e), and no other cell gets a cooldown
\* or a changed level (expired records may be dropped).
C6_FailureCoolsItsOwnCell ==
  [][ \A p \in Procs, r \in Responses :
        (Answered(p, r) /\ CoolingFailure(r)) =>
          \A cell \in { CellOf(p) } :
            /\ RecordOf(cell)' # NoRec
            /\ RecordOf(cell)'.applied_at = now
            /\ RecordOf(cell)'.cooldown_until > now
            /\ Is429(RecordOf(cell)') <=> (r.status = 429)
            /\ (r.status = 429) => Marked(cell)
            /\ \A other \in Cells \ { cell } :
                 /\ LevelOf(other)' = LevelOf(other)
                 /\ \/ RecordOf(other)' = RecordOf(other)
                    \/ RecordOf(other)' = NoRec /\ Available(other) ]_vars

\* the connections that answered 429 during the request of p
Answered429(r) ==
  { r.attempts[i].index :
      i \in { j \in 1..Len(r.attempts) : r.attempts[j].response.status = 429 } }

\* C7: if a connection that was available for the class when the request
\* began answers 2xx, the request does not end deferred; when it ends ok,
\* the connections that got a 429 record during the request are exactly
\* those that answered 429.
C7_HealthyPathIsReached ==
  [][ \A p \in Procs :
        ( /\ pc[p] # "done"
          /\ pc'[p] = "done"
          /\ \E c \in Conns :
               /\ config[c + 1].url \in healthy
               /\ \/ req'[p].column0[c] = NoRec
                  \/ req'[p].column0[c].cooldown_until <= now ) =>
          /\ result'[p].kind # "deferred"
          /\ result'[p].kind = "ok" =>
               \A c \in Conns, e \in { getEndpointName(req[p].url) } :
                 ( /\ Is429(RecordOf(Key(c, e))')
                   /\ RecordOf(Key(c, e))' # req'[p].column0[c] )
                 <=> c \in Answered429(req'[p]) ]_vars

\* the connections a request has called so far, in order
TriedBy(p) ==
  [ i \in 1..Len(req[p].attempts) |-> req[p].attempts[i].index ]
    \o (IF pc[p] = "inflight" THEN << req[p].index >> ELSE << >>)

\* C8: a single request makes at most one upstream attempt on each
\* connection, hence at most N attempts for N connections.
C8_OneAttemptPerConnection ==
  \A p \in Procs :
    req[p] # NoReq =>
      /\ \A i, j \in 1..Len(TriedBy(p)) : i # j => TriedBy(p)[i] # TriedBy(p)[j]
      /\ Len(TriedBy(p)) <= Len(config)

\* the proxy positions passed over when scanning from cursor up to j, wrapping
PassedOver(cursor, j, n) ==
  IF j >= cursor THEN cursor..(j - 1)
  ELSE (cursor..(n - 1)) \cup (0..(j - 1))

\* what the selection has to return for class e in the current state
SelectionRight(e) ==
  LET sel == getBestConnectionForEndpoint(PM, config, now, e)
      n == Len(config) - 1
  IN IF Available(Key(0, e))
       THEN sel.found /\ sel.index = 0 /\ sel.cursor = currentProxyIndex
     ELSE IF \E c \in 1..n : Available(Key(c, e))
       THEN /\ sel.found
            /\ sel.index \in 1..n
            /\ Available(Key(sel.index, e))
            /\ \A k \in PassedOver(currentProxyIndex, sel.index - 1, n) :
                 ~Available(Key(k + 1, e))
            /\ sel.cursor = sel.index % n
     ELSE ~sel.found

\* a connection a call can be bound to
Usable(c) == config[c + 1].type = "direct" \/ ValidSocksUrl(config[c + 1].url)

\* C9: selection for class e takes direct when it is available and leaves
\* the cursor alone; otherwise it takes the first available proxy scanning
\* from the cursor, wrapping, and moves the cursor just past it; a request
\* that finds no connection available ends deferred without upstream call,
\* and a call that starts is bound to the selected connection.
C9_Selection ==
  [][ /\ \A e \in Endpoints : SelectionRight(e)
      /\ \A p \in Procs :
           (pc[p] \in { "idle", "pacing" } /\ pc'[p] \in { "inflight", "done" }) =>
             LET e == getEndpointName(req'[p].url)
                 sel == getBestConnectionForEndpoint(PM, config, now, e)
             IN IF ~\E c \in Conns : Available(Key(c, e))
                  THEN /\ pc'[p] = "done"
                       /\ result'[p].kind = "deferred"
                       /\ ncalls' = ncalls
                  ELSE Usable(sel.index) =>
                         /\ pc'[p] = "inflight"
                         /\ req'[p].index = sel.index
                         /\ currentProxyIndex' = sel.cursor
                         /\ ncalls' = ncalls + 1 ]_vars

\* a call is in flight while, for its class, direct and every proxy from the
\* cursor on are cooling and a proxy before the cursor is available: the
\* selection run by its error handling has to wrap around
C9_Witness ==
  \E p \in Procs :
    /\ pc[p] = "inflight"
    /\ LET e == getEndpointName(req[p].url)
           n == Len(config) - 1
       IN /\ ~Available(Key(0, e))
          /\ currentProxyIndex >= 1
          /\ \A k \in currentProxyIndex..(n - 1) : ~Available(Key(k + 1, e))
          /\ \E j \in 0..(currentProxyIndex - 1) :
               /\ Available(Key(j + 1, e))
               /\ getBestConnectionForEndpoint(PM, config, now, e).index = j + 1
               /\ getBestConnectionForEndpoint(PM, config, now, e).cursor = (j + 1) % n

\* C10: a request that ends deferred reports as wait the minimum, over all
\* connections, of the remaining cooldown of the cell of the class.
C10_DeferredWaitIsMinimum ==
  [][ \A p \in Procs :
        (pc[p] # "done" /\ pc'[p] = "done" /\ result'[p].kind = "deferred") =>
          \A e \in Endpoints :
            result'[p].endpointName = e =>
              /\ \A c \in Conns : ~Available(Key(c, e))'
              /\ result'[p].nextAvailableIn =
                   Min({ RecordOf(Key(c, e))'.cooldown_until - now : c \in Conns }) ]_vars

\* a deferred request whose wait is the shorter of two different remaining
\* cooldowns
C10_Witness ==
  \E p \in Procs :
    /\ pc[p] = "done"
    /\ result[p].kind = "deferred"
    /\ LET e == result[p].endpointName IN
       /\ \A c \in Conns : ~Available(Key(c, e))
       /\ \E c, d \in Conns :
            /\ RecordOf(Key(c, e)).cooldown_until < RecordOf(Key(d, e)).cooldown_until
            /\ result[p].nextAvailableIn = RecordOf(Key(c, e)).cooldown_until - now
       /\ \A c \in Conns :
            result[p].nextAvailableIn <= RecordOf(Key(c, e)).cooldown_until - now

(***************************************************************************)
(* The checks built on makeApiRequest                                      *)
(***************************************************************************)

\* every failure of the call fails the check
checkVerdictStrict(endpointName, res, errorObj) ==
  IF res.kind = "deferred" THEN "deferred"
  ELSE IF res.kind = "ok" THEN "data"
  ELSE "error"

\* checkFriends, checkCsgoInventory: what the check makes of the outcome of
\* makeApiRequest (errorObj is the error of the last call, "data" stands for
\* the verdict computed from the body of a 200)
checkVerdict(endpointName, res, errorObj) ==
  IF res.kind = "deferred" THEN "deferred"
  ELSE IF res.kind = "ok" THEN "data"
  ELSE IF endpointName = "friends"
    THEN IF errorObj.status = 401 THEN "passed" ELSE "error"
  ELSE IF endpointName = "inventory"
    THEN IF res.kind = "private" \/ errorObj.status = 403 \/ errorObj.status = 401
           THEN "passed" ELSE "error"
  ELSE "error"

\* the private-data answer of a class: 403 for inventory, 401 for friends
PrivateAnswer(p, r) ==
  \/ getEndpointName(req[p].url) = "inventory" /\ r = HttpError(403)
  \/ getEndpointName(req[p].url) = "friends" /\ r = HttpError(401)

\* C11: a 403 on the inventory class and a 401 on the friends class make the
\* check count as passed; the step that takes the answer ends the request
\* without another call, and leaves every cooldown record, every backoff
\* level and the selection cursor as they were.
C11_PrivateAnswerPasses ==
  [][ \A p \in Procs, r \in Responses :
        (Answered(p, r) /\ PrivateAnswer(p, r)) =>
          /\ pc'[p] = "done"
          /\ checkVerdict(getEndpointName(req[p].url), result'[p], r) = "passed"
          /\ cooldowns' = cooldowns
          /\ backoffLevels' = backoffLevels
          /\ currentProxyIndex' = currentProxyIndex
          /\ ncalls' = ncalls ]_vars

\* a request ended by a private-data answer on its second call, while the
\* cell of its first call is cooling
C11_Witness ==
  \E p \in Procs :
    /\ pc[p] = "done"
    /\ result[p].kind = "private"
    /\ Len(req[p].attempts) = 2
    /\ req[p].attempts[2].response \in { HttpError(403), HttpError(401) }
    /\ checkVerdict(getEndpointName(req[p].url), result[p],
                    req[p].attempts[2].response) = "passed"
    /\ \E cell \in Cells : ~Available(cell)

\* C12: any two upstream dispatches of the process, whichever loop or retry
\* made them, start at least minApiCallInterval apart.
C12_DispatchesSpaced ==
  \A i, j \in DOMAIN dispatchTimes :
    i < j => dispatchTimes[j] - dispatchTimes[i] >= minApiCallInterval

(***************************************************************************)
(* The queue store                                                         *)
(***************************************************************************)

\* the profiles of the file that carry the steam_id
Carrying(file, steamId) ==
  { i \in 1..Len(readQueueProfilesInternal(file)) :
      readQueueProfilesInternal(file)[i].steam_id = steamId }

\* no steam_id occurs twice in the array
UniqueIds(profiles) ==
  \A i, j \in 1..Len(profiles) :
    profiles[i].steam_id = profiles[j].steam_id => i = j

\* the read of the call of t resolves in this step
ReadBy(t) == task[t].pc = "read" /\ task'[t].pc \in { "write", "done" }

\* C13: an add of a steam_id that is in the queue returns the profile that
\* is there and leaves the file as it is, with one profile of that steam_id
\* under its original username; and whatever adds (and other operations)
\* ran or interleaved, no steam_id occurs twice in the queue.
C13_AddIdempotentIdsUnique ==
  [][ /\ UniqueIds(readQueueProfilesInternal(queueFile'))
      /\ \A t \in QTasks, id \in SteamIds, u \in UsernameInputs :
           (ReadBy(t) /\ task[t].op = AddOp(id, u) /\ Carrying(queueFile, id) # {}) =>
             /\ task'[t].pc = "done"
             /\ queueFile' = queueFile
             /\ \E i \in 1..Len(queueFile.profiles) :
                  /\ Carrying(queueFile', id) = { i }
                  /\ task'[t].ret = Prof(queueFile.profiles[i]) ]_vars

\* a second add of a steam_id under another username has returned the
\* profile of the first, the only one of that steam_id in the queue
C13_Witness ==
  \E t \in QTasks, id \in SteamIds :
    /\ task[t].pc = "done"
    /\ task[t].op.kind = "add"
    /\ task[t].op.steamId = id
    /\ task[t].ret.kind = "profile"
    /\ task[t].ret.profile.username # task[t].op.username
    /\ task[t].op.username # ""
    /\ \E i \in 1..Len(readQueueProfilesInternal(queueFile)) :
         /\ Carrying(queueFile, id) = { i }
         /\ queueFile.profiles[i] = task[t].ret.profile

\* the check names of every profile of the array are the seven
SevenChecks(profiles) ==
  \A i \in 1..Len(profiles) : DOMAIN profiles[i].checks = CheckNames

\* the save of the call of t completes in this step
SavedBy(t) == task[t].pc = "writing" /\ task'[t].pc = "done"

InOperation == { t \in QTasks : worker[t].pc = "operation" }

\* C15: at any time at most one Queue Store operation, of any process or
\* of any task of one process, holds the queue lock.
C15_OneHolder == Cardinality(InOperation) <= 1

\* the task is inside releaseLock
Releasing(t) == worker[t].pc \in { "release", "owner", "unlink" }

\* the lock file is the one the task created
LockOf(file, t) ==
  file # NoLock /\ file.by = t /\ file.processId = worker[t].processId

\* the lock file was left by a process that is gone, more than lockTimeout ago
StaleLeft ==
  /\ lockFile # NoLock
  /\ \A t \in QTasks : worker[t].processId # lockFile.processId
  /\ lockFile.age > lockTimeout

NoWriteUnderWay == \A t \in QTasks : task[t].pc # "writing"

\* C17: the mutations stage, validate and rename, so that after a write
\* that succeeded and after a crash at any point of a write the queue file
\* parses as an array of valid profiles.
C17_FileAlwaysParses ==
  NoWriteUnderWay =>
    /\ queueFile.parses
    /\ \A i \in 1..Len(queueFile.profiles) :
         /\ queueFile.profiles[i].steam_id \in SteamIds
         /\ queueFile.profiles[i].username # ""
         /\ DOMAIN queueFile.profiles[i].checks = CheckNames

\* C18: on a corruption, file-lock or filesystem error a Queue Store call
\* runs its operation at most three times in total before the error is
\* surfaced: the operation never runs a fourth time, and a call that used
\* up its attempts does not return a value.
C18_ThreeAttempts ==
  \A t \in QTasks :
    /\ worker[t].pc = "operation" => worker[t].attempts <= 3
    /\ (worker[t].pc = "done" /\ worker[t].outcome = "ok") => worker[t].attempts <= 3

\* C19: update_check on a steam_id that is not in the queue, or with a
\* status outside the valid ones, returns false and leaves the queue file
\* as it is: nothing is written.
C19_RejectedUpdate ==
  [][ \A t \in QTasks, id \in SteamIds, n \in NameInputs, st \in StatusInputs :
        (/\ ReadBy(t)
         /\ task[t].op = UpdateOp(id, n, st)
         /\ (Carrying(queueFile, id) = {} \/ st \notin validStatuses)) =>
          /\ task'[t].pc = "done"
          /\ task'[t].ret = Bool(FALSE)
          /\ queueFile' = queueFile ]_vars

\* an update with a status outside the valid ones has returned false on a
\* profile that is in the queue, untouched
C19_Witness ==
  \E t \in QTasks :
    /\ task[t].pc = "done"
    /\ task[t].op.kind = "update"
    /\ task[t].op.status \notin validStatuses
    /\ task[t].ret = Bool(FALSE)
    /\ \E i \in Carrying(queueFile, task[t].op.steamId) :
         queueFile.profiles[i] = NewProfile(task[t].op.steamId, queueFile.profiles[i].username)

\* positions of the profiles with a to_check check, with a deferred check,
\* with all checks terminal
WithToCheck(profiles) == { i \in 1..Len(profiles) : hasToCheck(profiles[i]) }
WithDeferred(profiles) == { i \in 1..Len(profiles) : hasDeferred(profiles[i]) }
AllTerminal(profiles) ==
  { i \in 1..Len(profiles) :
      \A n \in DOMAIN profiles[i].checks : profiles[i].checks[n] \in { "passed", "failed" } }

\* the first profile of the positions, none if there is no position
FirstAt(profiles, positions) ==
  IF positions = {} THEN Null ELSE Prof(profiles[Min(positions)])

\* the call of t to next_processable reads the queue in this step
NextReadBy(t) == ReadBy(t) /\ task[t].op = NextOp

\* C20 as stated: the first profile with a to_check check; only if the
\* whole queue has none, the first with all checks terminal; only then the
\* first with a deferred check; otherwise none.
C20_ToCheckBeforeTerminal ==
  [][ \A t \in QTasks :
        NextReadBy(t) =>
          \A profiles \in { readQueueProfilesInternal(queueFile) } :
            task'[t].ret =
              IF WithToCheck(profiles) # {} THEN FirstAt(profiles, WithToCheck(profiles))
              ELSE IF AllTerminal(profiles) # {}
                THEN FirstAt(profiles, AllTerminal(profiles))
              ELSE FirstAt(profiles, WithDeferred(profiles)) ]_vars

\* C20 as the code has it: the first profile in queue order that has a
\* to_check check or has all its checks terminal; only if there is none,
\* the first with a deferred check; otherwise none.
C20_FirstReadyInOrder ==
  [][ \A t \in QTasks :
        NextReadBy(t) =>
          \A profiles \in { readQueueProfilesInternal(queueFile) } :
            task'[t].ret =
              IF WithToCheck(profiles) \cup AllTerminal(profiles) # {}
                THEN FirstAt(profiles, WithToCheck(profiles) \cup AllTerminal(profiles))
              ELSE FirstAt(profiles, WithDeferred(profiles)) ]_vars

\* next_processable has returned a profile with all checks terminal that
\* stands before a profile with a to_check check
C20_Witness ==
  \E t \in QTasks :
    /\ task[t].pc = "done"
    /\ task[t].op = NextOp
    /\ queueFile.parses
    /\ \E i \in AllTerminal(queueFile.profiles), j \in WithToCheck(queueFile.profiles) :
         /\ i < j
         /\ task[t].ret = Prof(queueFile.profiles[i])

\* C28: after the load of any configuration file and after any sequence of
\* addSocks5Proxy / removeSocks5Proxy, exactly one connection has the type
\* direct and it is the one at index 0
C28_DirectAtIndexZero ==
  /\ Cardinality({ i \in 1..Len(config) : config[i].type = "direct" }) = 1
  /\ config[1].type = "direct"

\* the rows of the proxy url in a cooldown store
RowsOf(cds, proxyUrl) == SelectSeq(cds, LAMBDA conn : ~OtherThan(proxyUrl, conn))

\* the rows of every other connection, in their order
Survivors(cds, proxyUrl) == SelectSeq(cds, LAMBDA conn : OtherThan(proxyUrl, conn))

\* some cell of the row holds a cooldown record
HasRecord(row) == \E e \in Endpoints : row.endpoint_cooldowns[e] # NoRec

\* C29: a removal of a proxy that has cooldown records drops the whole row
\* of that proxy, leaves the surviving rows in their previous order with the
\* indices 0..n-1 and each with its own records, and leaves the round-robin
\* cursor below the number of remaining proxies (0 when none remain)
C29_RemoveCompacts ==
  [][ \A proxyUrl \in ProxyInputs :
        ( /\ RowsOf(cooldowns, proxyUrl) # << >>
          /\ RowsOf(cooldowns', proxyUrl) = << >> )
        => /\ Len(cooldowns') = Len(Survivors(cooldowns, proxyUrl))
           /\ \A j \in 1..Len(cooldowns') :
                /\ cooldowns'[j].index = j - 1
                /\ cooldowns'[j].type = Survivors(cooldowns, proxyUrl)[j].type
                /\ cooldowns'[j].url = Survivors(cooldowns, proxyUrl)[j].url
                /\ cooldowns'[j].endpoint_cooldowns =
                     Survivors(cooldowns, proxyUrl)[j].endpoint_cooldowns
           /\ Len(config') = Len(cooldowns')
           /\ \A j \in 1..Len(config') :
                config'[j].type = cooldowns'[j].type /\ config'[j].url = cooldowns'[j].url
           /\ currentProxyIndex' >= 0
           /\ currentProxyIndex' <
                Max({ 1, Len(getProxyConnections(config')) }) ]_vars

\* a proxy with a cooldown record has been removed, and a proxy with a
\* record of its own is left behind it, one row further up
C29_Witness ==
  /\ removedRows # << >>
  /\ \E i \in 1..Len(removedRows) :
       /\ HasRecord(removedRows[i])
       /\ removedRows[i].index + 1 <= Len(cooldowns)
       /\ cooldowns[removedRows[i].index + 1].type = "socks5"
       /\ HasRecord(cooldowns[removedRows[i].index + 1])

\* the status the queue file holds for a check, "none" when the profile is
\* not in the queue
statusIn(file, steamId, checkName) ==
  LET profiles == readQueueProfilesInternal(file)
      i == findIndex(profiles, steamId)
  IN IF i = 0 THEN "none" ELSE profiles[i].checks[checkName]

\* the ids the start queues speak about
QueuedIds == { "id1", "id2" }

\* this step sends a check of the loop upstream
Dispatches(l) == loop[l].pc # "inflight" /\ loop'[l].pc = "inflight"

\* the queue file holds a failed check for the id
HasFailed(file, steamId) ==
  \E n \in CheckNames : statusIn(file, steamId, n) = "failed"

\* C21: once a check of a profile is failed, from the main loop or from the
\* re-run of a deferred check, the profile is rejected for good: no check
\* of a profile that has a failed check is dispatched, and such a profile
\* is never submitted downstream
C21_FailedIsTerminal ==
  [][ /\ \A l \in Loops :
           Dispatches(l) => ~HasFailed(queueFile, loop'[l].steamId)
      /\ loop'["main"].pc = "submit" => ~HasFailed(queueFile, loop'["main"].steamId)
    ]_vars

\* the ingest API accepted the submission
IsSuccess(answer) ==
  answer.kind = "response" /\ answer.status >= 200 /\ answer.status < 300

\* the ingest API answered that it has the link already
IsDuplicate(answer) ==
  answer.kind = "error" /\ answer.error = "Link already exists"

\* the ingest API answered with a 4xx status
IsPermanent(answer) ==
  answer.kind = "error" /\ answer.status >= 400 /\ answer.status < 500

\* the submission failed with a 5xx status or without an answer
IsTransient(answer) ==
  \/ answer.kind = "none"
  \/ answer.kind = "error" /\ answer.status >= 500 /\ answer.status < 600

\* C22: a profile with all seven checks passed whose submission fails with a
\* 5xx status or a network error stays in the queue as it is, to be
\* submitted again on a later tick; the removal follows only a 2xx answer,
\* a "link already exists" answer or another 4xx answer
C22_TransientKeepsProfile ==
  [][ (loop["main"].pc = "submit" /\ loop'["main"].pc # "submit"
       /\ ncrash' = ncrash)
      => /\ queueFile' = queueFile
         /\ loop'["main"].pc = "write" =>
              ( /\ loop'["main"].op = RemoveOp(loop["main"].steamId)
                /\ ~IsTransient(downstream')
                /\ \/ IsSuccess(downstream')
                   \/ IsDuplicate(downstream')
                   \/ IsPermanent(downstream') )
    ]_vars

\* C23: once steam_level of a profile has answered with the empty response,
\* in a pass of the main loop or in the re-run of a deferred check, friends
\* and csgo_inventory of the profile are never dispatched upstream
C23_PrivateNeverDispatched ==
  [][ \A l \in Loops :
        (Dispatches(l) /\ isRateLimitedCheck(loop'[l].checkName))
        => loop'[l].steamId \notin flagged
    ]_vars

\* C27: while the queue is empty no check is dispatched upstream, also
\* after the removal of a profile that had deferred checks
C27_EmptyQueueNoDispatch ==
  [][ \A l \in Loops :
        Dispatches(l) => readQueueProfilesInternal(queueFile) # << >>
    ]_vars

\* the status changes the queue allows
AllowedTransitions ==
  { << "to_check", "passed" >>, << "to_check", "failed" >>,
    << "to_check", "deferred" >>, << "deferred", "passed" >>,
    << "deferred", "failed" >>, << "deferred", "deferred" >> }

\* C30: the status of a check changes only along to_check -> passed |
\* failed | deferred and deferred -> passed | failed | deferred: no step
\* leads out of passed or failed and none leads back to to_check
C30_StatusTransitions ==
  [][ \A steamId \in QueuedIds, n \in CheckNames :
        ( /\ statusIn(queueFile, steamId, n) # "none"
          /\ statusIn(queueFile', steamId, n) # "none"
          /\ statusIn(queueFile', steamId, n) # statusIn(queueFile, steamId, n) )
        => << statusIn(queueFile, steamId, n), statusIn(queueFile', steamId, n) >>
             \in AllowedTransitions
    ]_vars

\* the place of a check in the declaration order
orderOf(checkName) ==
  FirstOf({ i \in 1..Len(checkOrder) : checkOrder[i] = checkName })

\* the to_check checks the file holds for the id after the given check, in
\* declaration order
laterToCheck(file, steamId, checkName) ==
  SelectSeq(checkOrder, LAMBDA n : /\ orderOf(n) > orderOf(checkName)
                                   /\ statusIn(file, steamId, n) = "to_check")

\* the main loop stands on a check of its pass over a profile
OnCheck(at) ==
  at.pc \in { "inflight", "write" } /\ at.kind = "pass" /\ at.checkName # ""

\* C24: inside one pass of the main loop over a profile, a deferred or
\* transport-error verdict sets the check to deferred and the pass goes on
\* with the remaining to_check checks in declaration order; only a
\* failed-validation verdict ends the pass
C24_DeferredContinuesInOrder ==
  [][ LET at == loop["main"]
          next == loop'["main"]
      IN /\ ( /\ OnCheck(at) /\ at.pc = "inflight" /\ next.pc = "write" )
            => \A answer \in { "error", "cooldown" } :
                 next.op = handleCheckResult(at.steamId, at.checkName, checkResult(answer))
                 => next.op = UpdateOp(at.steamId, at.checkName, "deferred")
         /\ ( /\ OnCheck(at) /\ at.pc = "write" /\ next # at /\ ncrash' = ncrash
              /\ at.op.kind = "update" )
            => /\ statusIn(queueFile', at.steamId, at.checkName) = at.op.status
               /\ IF laterToCheck(queueFile', at.steamId, at.checkName) = << >>
                    THEN next = Waiting
                    ELSE /\ OnCheck(next)
                         /\ next.steamId = at.steamId
                         /\ next.checkName =
                              Head(laterToCheck(queueFile', at.steamId, at.checkName))
         /\ ( /\ OnCheck(at) /\ at.pc = "write" /\ next # at /\ ncrash' = ncrash
              /\ at.op.kind = "remove" )
            => next = Waiting
    ]_vars

\* in its first pass over a profile the main loop has set steam_level to
\* deferred on a cooldown verdict and stands on friends, the next check
C24_Witness ==
  /\ ncrash = 0
  /\ startup = "pending"
  /\ OnCheck(loop["main"])
  /\ loop["main"].steamId = "id1"
  /\ loop["main"].checkName = "friends"
  /\ statusIn(queueFile, "id1", "steam_level") = "deferred"
  /\ "steam_level" \in Range(checksOf(deferredChecks, "id1"))

\* the pairs the map holds
PairsOf(map) ==
  UNION { { << map[i].steamId, n >> : n \in Range(map[i].checks) } :
          i \in 1..Len(map) }

\* the pairs the queue file holds as deferred
DeferredIn(file) ==
  { pair \in QueuedIds \X CheckNames :
      statusIn(file, pair[1], pair[2]) = "deferred" }

\* C26: once the startup initialisation has run, the map holds exactly the
\* pairs the queue file has as deferred together with the pairs the
\* scheduler recorded since the start: no pair recorded in the startup
\* window is lost
C26_StartupKeepsPairs ==
  [][ (startup = "pending" /\ startup' = "done")
      => PairsOf(deferredChecks') =
           DeferredIn(queueFile) \cup PairsOf(deferredChecks)
    ]_vars

\* the checks the start queues leave open
OpenChecks == { "steam_level", "friends", "csgo_inventory" }

\* the class of the check has a connection available
ClassAvailable(checkName) == mapCheckTypeToEndpoint(checkName) \notin cooled

\* a loop has the re-run of the pair under way
Rerun(steamId, checkName) ==
  \E l \in Loops :
    /\ loop[l].pc = "inflight"
    /\ loop[l].kind = "react"
    /\ loop[l].steamId = steamId
    /\ loop[l].checkName = checkName

\* C25: under fair scheduling of both loops and without a restart, a check
\* that the queue holds as deferred while its endpoint class has a
\* connection available is eventually re-run through the Validator (or
\* stops being deferred, or its class goes into cooldown again): no profile
\* stays in the queue forever with a deferred check whose class is available
C25_DeferredEventuallyRerun ==
  \A steamId \in QueuedIds, checkName \in OpenChecks :
    ( statusIn(queueFile, steamId, checkName) = "deferred" /\ ClassAvailable(checkName) )
    ~> ( \/ Rerun(steamId, checkName)
         \/ statusIn(queueFile, steamId, checkName) # "deferred"
         \/ ~ClassAvailable(checkName) )

\* the cooldown records the column of the class holds
ColumnRecords(endpoint) ==
  { RecordOf(Key(c, endpoint)) : c \in Conns } \ { NoRec }

\* C31 as stated: getNextAvailableTimeForEndpoint returns zero whenever a
\* connection is available for the class (no record or an expired record),
\* also when other connections still have active records
C31_ZeroWhenAnyAvailable ==
  \A e \in Endpoints :
    (\E c \in Conns : Available(Key(c, e)))
    => getNextAvailableTimeForEndpoint(PM, now, e) = 0

\* C31: getNextAvailableTimeForEndpoint returns the minimum remaining
\* cooldown over the connections that have a record for the class, never
\* below zero: zero when no connection has a record or when some record is
\* expired, and the remaining time of the earliest record otherwise, also
\* when a connection without a record is available
C31_MinimumOverRecords ==
  \A e \in Endpoints :
    getNextAvailableTimeForEndpoint(PM, now, e) =
      IF ColumnRecords(e) = {} THEN 0
      ELSE Max({ 0, Min({ rec.cooldown_until : rec \in ColumnRecords(e) }) - now })

\* a connection has no record for the class, another has an active one, and
\* the wait returned is the remaining time of that record
C31_Witness ==
  \E e \in Endpoints :
    /\ \E c \in Conns : RecordOf(Key(c, e)) = NoRec
    /\ \E c \in Conns : ~Available(Key(c, e))
    /\ getNextAvailableTimeForEndpoint(PM, now, e) > 0

\* the error is none of the cases makeApiRequest and handleRequestError
\* single out: no 429, no private-data signal, no SOCKS error, no
\* transport error
IsUpstreamOther(endpointName, error) ==
  /\ error.status \notin { 200, 429, Absent }
  /\ ~isPrivateSignal(endpointName, error)
  /\ "socks" \notin Needles(error.message)
  /\ ~isConnectionError(error)

\* C32: an upstream error that is no 429, no private-data signal, no SOCKS
\* error and no transport error makes makeApiRequest return failed, with no
\* cooldown record and no backoff level created or changed on any cell and
\* with no retry on another connection
C32_OtherErrorTouchesNothing ==
  [][ \A p \in Procs, r \in Responses :
        ( Answered(p, r) /\ IsUpstreamOther(getEndpointName(req[p].url), r) )
        => /\ pc'[p] = "done"
           /\ result'[p].kind = "failed"
           /\ ncalls' = ncalls
           /\ cooldowns' = cooldowns
           /\ backoffLevels' = backoffLevels
    ]_vars

\* the loops with an upstream call outstanding
Outstanding == { l \in Loops : loop[l].pc = "inflight" }

\* C33: within one process at most one upstream call is outstanding at any
\* time: no check of the main loop overlaps a check of the reactivation
\* loop, and no pair is under dispatch by both loops at once
C33_OneOutstandingCall ==
  /\ Cardinality(Outstanding) <= 1
  /\ \A l1, l2 \in Outstanding :
       (loop[l1].steamId = loop[l2].steamId /\ loop[l1].checkName = loop[l2].checkName)
       => l1 = l2

\* C38: a check of a queued profile that has the status passed keeps it
\* until the profile leaves the queue, under every interleaving of the main
\* loop and the reactivation loop
C38_PassedStays ==
  [][ \A steamId \in QueuedIds, n \in CheckNames :
        statusIn(queueFile, steamId, n) = "passed"
        => statusIn(queueFile', steamId, n) \in { "passed", "none" }
    ]_vars

\* C37: a check that the queue holds as deferred, with no operation on the
\* pair in flight, is in the in-memory map of deferred checks, whatever
\* deferred it: every connection in cooldown, a transport or
\* unexpected-response error in the main loop, an error during reactivation
C37_DeferredIsTracked ==
  \A steamId \in QueuedIds, n \in CheckNames :
    ( /\ statusIn(queueFile, steamId, n) = "deferred"
      /\ startup = "done"
      /\ \A l \in Loops :
           ~( /\ loop[l].pc \in { "inflight", "write" }
              /\ loop[l].steamId = steamId
              /\ loop[l].checkName = n ) )
    => << steamId, n >> \in PairsOf(deferredChecks)

\* the pairs a reactivation pass standing at the position has still before
\* it: the check types left of its entry and the later entries of its
\* snapshot
PairsAhead(at, map) ==
  { << at.steamId, at.types[i] >> : i \in 1..Len(at.types) } \cup
  UNION { { << at.entries[i], n >> : n \in Range(checksOf(map, at.entries[i])) } :
          i \in 2..Len(at.entries) }

\* C35: in one reactivation pass every pair of the map whose endpoint class
\* has a connection available is re-run: a pair that is deferred again does
\* not keep the pass from the pairs still before it, and a pair leaves the
\* map only when its re-run succeeded
C35_PassCoversAvailablePairs ==
  [][ \A l \in Loops :
        LET at == loop[l] IN
        /\ ( /\ at.pc = "inflight" /\ at.kind = "react"
             /\ loop'[l].pc # "inflight" /\ ncrash' = ncrash
             /\ << at.steamId, at.checkName >> \in PairsOf(deferredChecks')
             /\ \E pair \in PairsAhead(at, deferredChecks') :
                  mapCheckTypeToEndpoint(pair[2]) \notin cooled' )
           => loop'[l].kind = "react" /\ loop'[l].pc = "write"
        /\ ( /\ at.pc = "write" /\ at.kind = "react"
             /\ loop'[l] # at /\ ncrash' = ncrash
             /\ << at.steamId, at.checkName >> \in PairsOf(deferredChecks)
             /\ << at.steamId, at.checkName >> \notin PairsOf(deferredChecks') )
           => at.op.status \in { "passed", "failed" }
    ]_vars

\* C36: the bodies of the main loop never overlap and the reentrancy flag
\* is cleared on every exit path: the flag is set exactly while a body of
\* processQueuedProfiles is between its entry and its return, so that the
\* timer of processQueue, armed again only after the return, never finds
\* it set
C36_FlagTracksBody == isProcessing <=> loop["main"].pc # "idle"

\* a body has run to its end, taking the last profile off the queue, and
\* the flag is clear again
C36_Witness ==
  /\ ~isProcessing
  /\ loop["main"].pc = "idle"
  /\ ncrash = 0
  /\ queueFile.parses
  /\ readQueueProfilesInternal(queueFile) = << >>

\* the backoff level the map holds under a key, Absent when it holds none
LevelIn(levels, cell) == IF cell \in DOMAIN levels THEN levels[cell] ELSE Absent

\* the index a surviving connection has once the rows of the removed proxy
\* are gone
IndexAfter(cfg, proxyUrl, connectionIndex) ==
  connectionIndex -
    Cardinality({ k \in 0..(connectionIndex - 1) : ~OtherThan(proxyUrl, cfg[k + 1]) })

\* C39: after the removal of a proxy the in-memory backoff level of every
\* surviving connection is what it was before, on every endpoint: the level
\* follows its connection to the new index, and no surviving connection
\* takes over a level of the removed proxy
C39_LevelsFollowConnection ==
  [][ \A proxyUrl \in ProxyInputs :
        ( /\ Len(config') < Len(config)
          /\ config' = SelectSeq(config, LAMBDA conn : OtherThan(proxyUrl, conn)) )
        => \A connectionIndex \in Conns, endpoint \in Endpoints :
             OtherThan(proxyUrl, config[connectionIndex + 1])
             => LevelIn(backoffLevels',
                        Key(IndexAfter(config, proxyUrl, connectionIndex), endpoint))
                = LevelIn(backoffLevels, Key(connectionIndex, endpoint)) ]_vars

\* C34: the lock file is removed only by the process that created it, in
\* releaseLock after the comparison of the processId, or by another caller
\* when the lock is older than lockTimeout at the moment of the removal: a
\* lock younger than that is never removed by a caller that does not hold
\* it, under any interleaving
C34_RemovedByHolderOrStale ==
  [][ \A t \in QTasks :
        (lockFile # NoLock /\ lockFile' = NoLock /\ worker'[t] # worker[t])
        => \/ worker[t].pc = "unlink" /\ lockFile.processId = worker[t].processId
           \/ lockFile.age > lockTimeout ]_vars

\* C40: a mutation (add, update_check, remove) that finds a queue file that
\* does not parse, with no write of the file under way, never goes on to
\* overwrite it: it ends without a save, so that what was queued is not
\* replaced by an array built from nothing
C40_UnparsedFileNotOverwritten ==
  [][ \A t \in QTasks :
        ( /\ task[t].pc = "read"
          /\ task[t].op \in Mutations
          /\ ~queueFile.parses
          /\ \A u \in QTasks : task[u].pc # "writing"
          /\ task'[t].pc # "read" )
        => task'[t].pc # "write" ]_vars
====
